---- MODULE Spec2Model ----
(***************************************************************************)
(* GarmentSync: the order repository (server/storage.ts, MemStorage), the  *)
(* notification dispatcher (server/email-service.ts, EmailService) and the *)
(* workflow layer (server/routes.ts, registerRoutes).                      *)
(*                                                                         *)
(* routes.ts, storage.ts and email-service.ts each hold several revisions  *)
(* of the same unit one after the other.  The model follows the last       *)
(* revision of each: routes.ts from line 488, the order MemStorage of      *)
(* storage.ts from line 235, and in EmailService the later definition of   *)
(* sendNotification (lines 182-203), which replaces the earlier one of     *)
(* lines 31-53 in the class.  The projects of the earlier MemStorage of    *)
(* storage.ts (lines 30-233) are modelled next to it, for updateProject.   *)
(*                                                                         *)
(* In most specifications a handler is one step.  SpecRace and             *)
(* SpecBulkRace take a handler apart at its awaits, for the requests that  *)
(* are in flight together.                                                 *)
(*                                                                         *)
(* Strings the code takes apart (the bulk invite's emailList, an address)  *)
(* are sequences of one-character strings; dates are integers.             *)
(***************************************************************************)
EXTENDS Integers, Sequences, FiniteSets, TLC

VARIABLES
    orders,        \* MemStorage.orders: order id -> Order
    updates,       \* MemStorage.updates: update id -> Update
    comments,      \* MemStorage.comments: comment id -> Comment
    stakeholders,  \* MemStorage.stakeholders: stakeholder id -> Stakeholder
    client,        \* EmailService.client is set (the transport is configured)
    now,           \* the value new Date() returns
    req,           \* the last request handled
    res,           \* the response to it
    mail,          \* the calls of EmailService.sendNotification / sendNotificationReply it made
    served,        \* requests handled so far (counted in Spec only)
    inflight,      \* the requests whose handler is suspended at an await: its locals
    projects       \* the earlier MemStorage's projects: project id -> Project

vars == <<orders, updates, comments, stakeholders, client, now, req, res, mail, served,
          inflight, projects>>

----------------------------------------------------------------------------
(* Bounds of the model *)

MaxBatch == 2          \* entries in one emailList
MaxRecipients == 2     \* stakeholders stored while notifications are followed
MaxNotes == 1          \* updates, and comments, posted beyond the seeded ones
MaxTick == 1           \* how far the clock advances past the server's start
MaxRequests == 2       \* requests in one behaviour of Spec, where every handler runs
MaxStored == 3         \* updates, and comments, stored when the listings are followed
MaxNames == 3          \* stakeholders stored when the derived names are followed
MaxCase == 3           \* stakeholders stored when the duplicate check is followed
MaxProjects == 3       \* projects stored, the two seeded ones included

----------------------------------------------------------------------------
(* Characters and strings *)

IsSpace(c) == c \in {" ", "\n", "\t"}

Lower ==
    <<"a", "b", "c", "d", "e", "f", "g", "h", "i", "j", "k", "l", "m",
      "n", "o", "p", "q", "r", "s", "t", "u", "v", "w", "x", "y", "z">>

Upper ==
    <<"A", "B", "C", "D", "E", "F", "G", "H", "I", "J", "K", "L", "M",
      "N", "O", "P", "Q", "R", "S", "T", "U", "V", "W", "X", "Y", "Z">>

\* String.prototype.toUpperCase on one character: a small letter gives its
\* capital, any other character of the model's alphabet is kept
ToUpperCase(c) ==
    IF \E i \in 1..Len(Lower) : Lower[i] = c
    THEN Upper[CHOOSE i \in 1..Len(Lower) : Lower[i] = c]
    ELSE c

\* Array.prototype.join / string concatenation of a sequence of strings
RECURSIVE Join(_, _)
Join(parts, sep) ==
    IF Len(parts) = 0 THEN <<>>
    ELSE IF Len(parts) = 1 THEN parts[1]
    ELSE parts[1] \o sep \o Join(Tail(parts), sep)

\* String.prototype.split on a set of one-character separators: always at
\* least one piece, the empty string splits into one empty piece.
RECURSIVE SplitOn(_, _)
SplitOn(s, seps) ==
    IF \A i \in 1..Len(s) : s[i] \notin seps THEN <<s>>
    ELSE LET k == CHOOSE i \in 1..Len(s) :
                      s[i] \in seps /\ \A j \in 1..(i - 1) : s[j] \notin seps
         IN  <<SubSeq(s, 1, k - 1)>> \o SplitOn(SubSeq(s, k + 1, Len(s)), seps)

\* String.prototype.trim
RECURSIVE Trim(_)
Trim(s) ==
    IF Len(s) = 0 THEN s
    ELSE IF IsSpace(s[1]) THEN Trim(Tail(s))
    ELSE IF IsSpace(s[Len(s)]) THEN Trim(SubSeq(s, 1, Len(s) - 1))
    ELSE s

\* [^\s@]+ : one or more characters, none of them white space or '@'
PlainRun(s) == Len(s) > 0 /\ \A i \in 1..Len(s) : ~IsSpace(s[i]) /\ s[i] # "@"

\* /^[^\s@]+@[^\s@]+\.[^\s@]+$/.test(email)
emailRegex(email) ==
    \E i, j \in 1..Len(email) :
        /\ i < j
        /\ email[i] = "@"
        /\ email[j] = "."
        /\ PlainRun(SubSeq(email, 1, i - 1))
        /\ PlainRun(SubSeq(email, i + 1, j - 1))
        /\ PlainRun(SubSeq(email, j + 1, Len(email)))

\* word.charAt(0).toUpperCase() + word.slice(1)
Capitalize(word) ==
    IF Len(word) = 0 THEN word ELSE <<ToUpperCase(word[1])>> \o Tail(word)

\* ReplaceDots that replaces the dots only
ReplaceDotsOnly(s) == [i \in 1..Len(s) |-> IF s[i] = "." THEN " " ELSE s[i]]

\* String.prototype.replace(/[._]/g, ' ')
ReplaceDots(s) == [i \in 1..Len(s) |-> IF s[i] \in {".", "_"} THEN " " ELSE s[i]]

\* Array.prototype.map of Capitalize
MapCapitalize(words) == [i \in 1..Len(words) |-> Capitalize(words[i])]

\* email.split('@')[0].replace(/[._]/g, ' ').split(' ').map(...).join(' ')
DeriveName(email) ==
    Join(MapCapitalize(SplitOn(ReplaceDots(SplitOn(email, {"@"})[1]), {" "})), <<" ">>)

\* emailList.split(/[,\n]/).map(e => e.trim()).filter(e => e.length > 0)
TrimAll(parts) == [i \in 1..Len(parts) |-> Trim(parts[i])]

RECURSIVE FilterNonEmpty(_)
FilterNonEmpty(parts) ==
    IF Len(parts) = 0 THEN <<>>
    ELSE (IF Len(parts[1]) > 0 THEN <<parts[1]>> ELSE <<>>) \o FilterNonEmpty(Tail(parts))

\* ParseEmails without the filter of the empty entries
ParseEmailsUnfiltered(emailList) == TrimAll(SplitOn(emailList, {",", "\n"}))

ParseEmails(emailList) == FilterNonEmpty(TrimAll(SplitOn(emailList, {",", "\n"})))

----------------------------------------------------------------------------
(* Map: a JavaScript Map, a sequence of entries [k, v] in insertion order *)

MapKeys(m) == {m[i].k : i \in 1..Len(m)}

MapHas(m, k) == \E i \in 1..Len(m) : m[i].k = k

\* Map.prototype.get, for a key the map has
MapGet(m, k) == m[CHOOSE i \in 1..Len(m) : m[i].k = k].v

\* Map.prototype.set: a key the map has keeps its place
MapSet(m, k, v) ==
    IF MapHas(m, k)
    THEN [i \in 1..Len(m) |-> IF m[i].k = k THEN [k |-> k, v |-> v] ELSE m[i]]
    ELSE Append(m, [k |-> k, v |-> v])

\* Map.prototype.delete
RECURSIVE MapDelete(_, _)
MapDelete(m, k) ==
    IF Len(m) = 0 THEN <<>>
    ELSE (IF m[1].k = k THEN <<>> ELSE <<m[1]>>) \o MapDelete(Tail(m), k)

\* Array.from(map.values())
MapValues(m) == [i \in 1..Len(m) |-> m[i].v]

\* { ...a, ...b }
Spread(a, b) == [f \in DOMAIN a \cup DOMAIN b |-> IF f \in DOMAIN b THEN b[f] ELSE a[f]]

----------------------------------------------------------------------------
(* MemStorage *)

\* randomUUID(): an id no entry of the map has
UUIDs == <<"uuid-1", "uuid-2", "uuid-3", "uuid-4", "uuid-5", "uuid-6", "uuid-7", "uuid-8">>

randomUUID(m) ==
    UUIDs[CHOOSE i \in 1..Len(UUIDs) :
              /\ ~MapHas(m, UUIDs[i])
              /\ \A j \in 1..(i - 1) : MapHas(m, UUIDs[j])]

\* "orders@fashionforward.com"
Email1 ==
    <<"o", "r", "d", "e", "r", "s", "@", "f", "a", "s", "h", "i", "o", "n", "f", "o", "r", "w", "a", "r", "d", ".", "c", "o", "m">>

\* "purchasing@retailchain.com"
Email2 ==
    <<"p", "u", "r", "c", "h", "a", "s", "i", "n", "g", "@", "r", "e", "t", "a", "i", "l", "c", "h", "a", "i", "n", ".", "c", "o", "m">>

order1 ==
    [id |-> "ORD-001", buyerName |-> "Fashion Forward Inc.", styleNumber |-> "FF-2024-001",
     quantity |-> 1000, estimatedDelivery |-> 20240315,
     buyerEmail |-> Email1, status |-> "in_production",
     createdAt |-> 20240110]

order2 ==
    [id |-> "ORD-002", buyerName |-> "Retail Chain Co.", styleNumber |-> "RC-SS24-015",
     quantity |-> 2500, estimatedDelivery |-> 20240228,
     buyerEmail |-> Email2, status |-> "quality_check",
     createdAt |-> 20240105]

update1 ==
    [id |-> "update-1", orderId |-> "ORD-001", message |-> "Production has started. Fabric cutting is complete.",
     authorName |-> "Sarah Chen", authorRole |-> "manufacturer", createdAt |-> 20240112]

comment1 ==
    [id |-> "comment-1", orderId |-> "ORD-001", message |-> "Looking great! Can we get photos of the fabric quality?",
     authorName |-> "Mike Johnson", authorRole |-> "buyer", createdAt |-> 20240113]

\* MemStorage.getOrder: found tells whether the Map has the id
getOrder(os, id) ==
    IF MapHas(os, id) THEN [found |-> TRUE, order |-> MapGet(os, id)]
    ELSE [found |-> FALSE]

\* NewOrder that takes the status as it is given, without the default
NewOrderWithoutDefault(insertOrder, t) ==
    [id |-> insertOrder.id, buyerName |-> insertOrder.buyerName,
     styleNumber |-> insertOrder.styleNumber, quantity |-> insertOrder.quantity,
     estimatedDelivery |-> insertOrder.estimatedDelivery,
     buyerEmail |-> insertOrder.buyerEmail,
     status |-> IF "status" \in DOMAIN insertOrder THEN insertOrder.status ELSE "",
     createdAt |-> t]

\* the record createOrder builds: { ...insertOrder, status: insertOrder.status || "received",
\* createdAt: new Date() }
NewOrder(insertOrder, t) ==
    [id |-> insertOrder.id, buyerName |-> insertOrder.buyerName,
     styleNumber |-> insertOrder.styleNumber, quantity |-> insertOrder.quantity,
     estimatedDelivery |-> insertOrder.estimatedDelivery,
     buyerEmail |-> insertOrder.buyerEmail,
     status |-> IF "status" \in DOMAIN insertOrder /\ insertOrder.status # ""
                THEN insertOrder.status ELSE "received",
     createdAt |-> t]

\* createOrder that stores the order in a new Map
createOrderInNewMap(os, insertOrder, t) ==
    MapSet(<<>>, insertOrder.id, NewOrder(insertOrder, t))

\* MemStorage.createOrder: this.orders.set(order.id, order)
createOrder(os, insertOrder, t) == MapSet(os, insertOrder.id, NewOrder(insertOrder, t))

\* updateOrderStatus that stores a status only when it is one of the five
\* recognized values
updateOrderStatusRecognized(os, id, status) ==
    IF status \in {"received", "in_production", "quality_check", "shipped", "delivered"}
    THEN MapSet(os, id, [MapGet(os, id) EXCEPT !.status = status])
    ELSE os

\* updateOrderStatus that gives the status to every order
updateOrderStatusOfAll(os, id, status) ==
    [i \in 1..Len(os) |-> [k |-> os[i].k, v |-> [os[i].v EXCEPT !.status = status]]]

\* updateOrderStatus that leaves alone a status that was changed before
updateOrderStatusOnce(os, id, status) ==
    IF MapGet(os, id).status # order1.status THEN os
    ELSE MapSet(os, id, [MapGet(os, id) EXCEPT !.status = status])

\* MemStorage.updateOrderStatus, for an id the Map has: { ...order, status }
updateOrderStatus(os, id, status) ==
    MapSet(os, id, [MapGet(os, id) EXCEPT !.status = status])

\* the record createUpdate / createComment builds: { ...insert, id, createdAt: new Date() }
NewNote(insert, id, t) ==
    [id |-> id, orderId |-> insert.orderId, message |-> insert.message,
     authorName |-> insert.authorName, authorRole |-> insert.authorRole, createdAt |-> t]

\* createUpdate that stores every update under the id of the first one
createUpdateUnderOneId(us, insertUpdate, t) ==
    MapSet(us, us[1].k, NewNote(insertUpdate, us[1].k, t))

\* MemStorage.createUpdate
createUpdate(us, insertUpdate, t) ==
    MapSet(us, randomUUID(us), NewNote(insertUpdate, randomUUID(us), t))

\* MemStorage.createComment
createComment(cs, insertComment, t) ==
    MapSet(cs, randomUUID(cs), NewNote(insertComment, randomUUID(cs), t))

\* Array.prototype.filter(x => x.orderId === orderId)
RECURSIVE FilterByOrder(_, _)
FilterByOrder(xs, orderId) ==
    IF Len(xs) = 0 THEN <<>>
    ELSE (IF xs[1].orderId = orderId THEN <<xs[1]>> ELSE <<>>)
         \o FilterByOrder(Tail(xs), orderId)

\* Array.prototype.sort((a, b) => a.createdAt - b.createdAt): stable, ascending
RECURSIVE SortAscending(_)
SortAscending(xs) ==
    IF Len(xs) <= 1 THEN xs
    ELSE LET front == SortAscending(SubSeq(xs, 1, Len(xs) - 1))
             x == xs[Len(xs)]
             k == IF \E i \in 1..Len(front) : front[i].createdAt > x.createdAt
                  THEN (CHOOSE i \in 1..Len(front) :
                            /\ front[i].createdAt > x.createdAt
                            /\ \A j \in 1..(i - 1) : front[j].createdAt <= x.createdAt) - 1
                  ELSE Len(front)
         IN  SubSeq(front, 1, k) \o <<x>> \o SubSeq(front, k + 1, Len(front))

\* Array.prototype.sort((a, b) => b.createdAt - a.createdAt): stable, descending
RECURSIVE SortDescending(_)
SortDescending(xs) ==
    IF Len(xs) <= 1 THEN xs
    ELSE LET front == SortDescending(SubSeq(xs, 1, Len(xs) - 1))
             x == xs[Len(xs)]
             k == IF \E i \in 1..Len(front) : front[i].createdAt < x.createdAt
                  THEN (CHOOSE i \in 1..Len(front) :
                            /\ front[i].createdAt < x.createdAt
                            /\ \A j \in 1..(i - 1) : front[j].createdAt >= x.createdAt) - 1
                  ELSE Len(front)
         IN  SubSeq(front, 1, k) \o <<x>> \o SubSeq(front, k + 1, Len(front))

\* MemStorage.getUpdatesByOrder
getUpdatesByOrder(us, orderId) == SortDescending(FilterByOrder(MapValues(us), orderId))

\* getCommentsByOrder with the comparator of getUpdatesByOrder
getCommentsByOrderDescending(cs, orderId) ==
    SortDescending(FilterByOrder(MapValues(cs), orderId))

\* MemStorage.getCommentsByOrder
getCommentsByOrder(cs, orderId) == SortAscending(FilterByOrder(MapValues(cs), orderId))

\* MemStorage.getStakeholdersByOrder: the stakeholders of the order, oldest first
getStakeholdersByOrder(ss, orderId) == SortAscending(FilterByOrder(MapValues(ss), orderId))

\* the record createStakeholder builds: the insert with a generated id and createdAt
NewStakeholder(insert, id, t) ==
    [id |-> id, orderId |-> insert.orderId, name |-> insert.name, email |-> insert.email,
     role |-> insert.role, permissions |-> insert.permissions, createdAt |-> t]

\* MemStorage.createStakeholder
createStakeholder(ss, insertStakeholder, t) ==
    MapSet(ss, randomUUID(ss), NewStakeholder(insertStakeholder, randomUUID(ss), t))

\* MemStorage.deleteStakeholder: Map.prototype.delete
deleteStakeholder(ss, id) == MapDelete(ss, id)

\* MemStorage.updateStakeholderPermissions, for an id the Map has
updateStakeholderPermissions(ss, id, permissions) ==
    MapSet(ss, id, [MapGet(ss, id) EXCEPT !.permissions = permissions])

----------------------------------------------------------------------------
(* The earlier MemStorage of storage.ts: the projects *)

null == "null"

\* seedData of the earlier MemStorage; t: new Date() when the server starts
project1(t) ==
    [id |-> "project-1", name |-> "Summer Collection 2024",
     description |-> "Premium cotton t-shirts and polo shirts for retail chain",
     status |-> "production", priority |-> "high", buyerId |-> "user-2",
     manufacturerId |-> "user-1", quantity |-> 5000, deadline |-> 20240315,
     progress |-> 65, createdAt |-> 20240110, updatedAt |-> t]

project2(t) ==
    [id |-> "project-2", name |-> "Corporate Uniforms",
     description |-> "Custom embroidered uniforms for hotel chain staff",
     status |-> "quality_check", priority |-> "medium", buyerId |-> "user-2",
     manufacturerId |-> "user-1", quantity |-> 2000, deadline |-> 20240228,
     progress |-> 85, createdAt |-> 20240105, updatedAt |-> t]

\* insert[f] || d, for a field of strings
StringOr(insert, f, d) == IF f \in DOMAIN insert /\ insert[f] # "" THEN insert[f] ELSE d

\* the record createProject builds: { ...insertProject, id, status: ... || "design", ... }
NewProject(insertProject, id, t) ==
    [id |-> id, name |-> insertProject.name, buyerId |-> insertProject.buyerId,
     manufacturerId |-> insertProject.manufacturerId,
     status |-> StringOr(insertProject, "status", "design"),
     priority |-> StringOr(insertProject, "priority", "medium"),
     progress |-> IF "progress" \in DOMAIN insertProject THEN insertProject.progress ELSE 0,
     description |-> StringOr(insertProject, "description", null),
     quantity |-> IF "quantity" \in DOMAIN insertProject /\ insertProject.quantity # 0
                  THEN insertProject.quantity ELSE null,
     deadline |-> IF "deadline" \in DOMAIN insertProject THEN insertProject.deadline
                  ELSE null,
     createdAt |-> t, updatedAt |-> t]

\* MemStorage.createProject
createProject(ps, insertProject, t) ==
    MapSet(ps, randomUUID(ps), NewProject(insertProject, randomUUID(ps), t))

\* MemStorage.getProject
getProject(ps, id) ==
    IF MapHas(ps, id) THEN [found |-> TRUE, project |-> MapGet(ps, id)]
    ELSE [found |-> FALSE]

\* the record updateProject builds: { ...project, ...updates, updatedAt: new Date() }
UpdatedProject(project, partial, t) ==
    [Spread(project, partial) EXCEPT !.updatedAt = t]

\* MemStorage.updateProject(id, updates), for an id the Map has; partial: updates
updateProject(ps, id, partial, t) ==
    MapSet(ps, id, UpdatedProject(MapGet(ps, id), partial, t))

----------------------------------------------------------------------------
(* Schema validation (shared/schema.ts) *)

\* z.string().email(): local@domain.tld without white space
ZodEmail(e) == emailRegex(e)

\* insertOrderSchema.parse succeeds
ValidOrder(body) ==
    /\ body.id # ""
    /\ body.buyerName # ""
    /\ body.styleNumber # ""
    /\ body.quantity > 0
    /\ body.estimatedDelivery.datetime
    /\ ZodEmail(body.buyerEmail)

\* what insertOrderSchema.parse returns: estimatedDelivery transformed to a Date
ParseOrder(body) == [body EXCEPT !.estimatedDelivery = body.estimatedDelivery.date]

\* WithOrderId that spreads the body over the path's id: { orderId: id, ...body }
WithOrderIdFromBody(body, id) ==
    [f \in DOMAIN body \cup {"orderId"} |-> IF f \in DOMAIN body THEN body[f] ELSE id]

\* { ...req.body, orderId: req.params.id }
WithOrderId(body, id) ==
    [f \in DOMAIN body \cup {"orderId"} |-> IF f = "orderId" THEN id ELSE body[f]]

\* insertUpdateSchema.parse / insertCommentSchema.parse succeeds
ValidNote(data) ==
    /\ data.orderId # ""
    /\ data.message # ""
    /\ data.authorName # ""
    /\ data.authorRole \in {"manufacturer", "buyer"}

Roles == {"admin", "factory_owner", "factory_manager", "buyer", "buyer_employee"}

Permissions == {"read", "comment", "update"}

\* insertStakeholderSchema.parse succeeds
ValidStakeholder(data) ==
    /\ data.orderId # ""
    /\ Len(data.name) > 0
    /\ ZodEmail(data.email)
    /\ data.role \in Roles
    /\ data.permissions \in Permissions

----------------------------------------------------------------------------
(* EmailService *)

\* sendNotification that catches the transport's error and does not rethrow it
sendNotificationSwallowing(emails, content, ok) ==
    [fn |-> "sendNotification", to |-> emails, content |-> content,
     outcome |-> IF ~client THEN "skipped" ELSE IF ok THEN "sent" ELSE "failed",
     threw |-> FALSE]

\* EmailService.sendNotification (the private one): one call of the dispatcher.
\* Without a client it logs and returns; with one it awaits client.sendMultiple
\* and, when that rejects, logs and rethrows.  ok: the transport accepts the message.
sendNotification(emails, content, ok) ==
    [fn |-> "sendNotification", to |-> emails, content |-> content,
     outcome |-> IF ~client THEN "skipped" ELSE IF ok THEN "sent" ELSE "failed",
     threw |-> client /\ ~ok]

\* EmailService.notifyStakeholders
notifyStakeholders(stakeholderEmails, orderInfo, notification, ok) ==
    sendNotification(stakeholderEmails,
                     [subject |-> "notification", order |-> orderInfo.id,
                      type |-> notification.type, message |-> notification.message],
                     ok)

\* EmailService.sendStakeholderInvitation
sendStakeholderInvitation(recipientEmail, recipientName, orderInfo, role, permissions, ok) ==
    sendNotification(<<recipientEmail>>,
                     [subject |-> "invitation", order |-> orderInfo.id,
                      name |-> recipientName, role |-> role, permissions |-> permissions],
                     ok)

\* sendNotificationReply that catches the transport's error and does not rethrow it
sendNotificationReplySwallowing(to, subject, message, ok) ==
    [fn |-> "sendNotificationReply", to |-> <<to>>,
     content |-> [subject |-> subject, message |-> message],
     outcome |-> IF ~client THEN "skipped" ELSE IF ok THEN "sent" ELSE "failed",
     threw |-> FALSE]

\* EmailService.sendNotificationReply: without a client it logs and returns; with
\* one it awaits client.send and, when that rejects, logs and rethrows.
sendNotificationReply(to, subject, message, ok) ==
    [fn |-> "sendNotificationReply", to |-> <<to>>,
     content |-> [subject |-> subject, message |-> message],
     outcome |-> IF ~client THEN "skipped" ELSE IF ok THEN "sent" ELSE "failed",
     threw |-> client /\ ~ok]

\* error.message of the rejected transport call
TransportError == "transport failure"

OrderInfo(order) ==
    [id |-> order.id, buyerName |-> order.buyerName, styleNumber |-> order.styleNumber]

----------------------------------------------------------------------------
(* Workflow layer: registerRoutes *)

Status(code, body) == [status |-> code, body |-> body]

Message(text) == [message |-> text]

\* GET /api/orders/:id
GetOrder(ids) ==
    \E id \in ids :
        LET order == getOrder(orders, id)
        IN  /\ req' = [op |-> "getOrder", id |-> id]
            /\ res' = IF ~order.found
                      THEN Status(404, Message("Order not found"))
                      ELSE Status(200,
                                  Spread(order.order,
                                         [updates |-> getUpdatesByOrder(updates, id),
                                          comments |-> getCommentsByOrder(comments, id),
                                          stakeholders |->
                                              getStakeholdersByOrder(stakeholders, id)]))
            /\ mail' = <<>>
            /\ UNCHANGED <<orders, updates, comments, stakeholders, client, now>>

\* POST /api/orders
CreateOrder(bodies) ==
    \E body \in bodies :
        /\ req' = [op |-> "createOrder", body |-> body]
        /\ IF ~ValidOrder(body)
           THEN /\ res' = Status(400, Message("Invalid data"))
                /\ UNCHANGED orders
           ELSE /\ orders' = createOrder(orders, ParseOrder(body), now)
                /\ res' = Status(201, NewOrder(ParseOrder(body), now))
        /\ mail' = <<>>
        /\ UNCHANGED <<updates, comments, stakeholders, client, now>>

\* the value of a property the object does not have
undefined == "undefined"

\* const { status } = req.body
StatusOf(body) == IF "status" \in DOMAIN body THEN body.status ELSE undefined

\* PATCH /api/orders/:id/status
UpdateOrderStatus(ids, bodies) ==
    \E id \in ids, body \in bodies :
        /\ req' = [op |-> "updateOrderStatus", id |-> id, body |-> body]
        /\ IF ~MapHas(orders, id)
           THEN /\ res' = Status(404, Message("Order not found"))
                /\ UNCHANGED orders
           ELSE /\ orders' = updateOrderStatus(orders, id, StatusOf(body))
                /\ res' = Status(200, [MapGet(orders, id) EXCEPT !.status = StatusOf(body)])
        /\ mail' = <<>>
        /\ UNCHANGED <<updates, comments, stakeholders, client, now>>

\* StakeholderEmails that takes the first stakeholder only
StakeholderEmailsFirst(sts) == <<sts[1].email>>

\* stakeholders.map(s => s.email)
StakeholderEmails(sts) == [i \in 1..Len(sts) |-> sts[i].email]

\* ShouldNotify without the test of stakeholders.length
ShouldNotifyAnyOrder(order, sts) == order.found

\* order && stakeholders.length > 0
ShouldNotify(order, sts) == order.found /\ Len(sts) > 0

\* the calls the update and comment handlers make after the record is stored
NotifyCalls(id, type, note, ok) ==
    LET order == getOrder(orders, id)
        sts == getStakeholdersByOrder(stakeholders, id)
    IN  IF ShouldNotify(order, sts)
        THEN <<notifyStakeholders(StakeholderEmails(sts), OrderInfo(order.order),
                                  [type |-> type, message |-> note.message,
                                   authorName |-> note.authorName,
                                   authorRole |-> note.authorRole], ok)>>
        ELSE <<>>

\* the response of a handler whose calls of the email service are `calls`: an
\* error thrown by the service reaches the handler's catch, which answers 500
Respond(calls, code, body, failure) ==
    IF \E i \in 1..Len(calls) : calls[i].threw
    THEN Status(500, Message(failure))
    ELSE Status(code, body)

\* POST /api/orders/:id/updates
PostUpdate(ids, bodies, cap) ==
    \E id \in ids, body \in bodies, ok \in BOOLEAN :
        LET data == WithOrderId(body, id)
            update == NewNote(data, randomUUID(updates), now)
            calls == NotifyCalls(id, "update", update, ok)
        IN  /\ req' = [op |-> "postUpdate", id |-> id, body |-> body]
            /\ IF ~ValidNote(data)
               THEN /\ res' = Status(400, Message("Invalid data"))
                    /\ mail' = <<>>
                    /\ UNCHANGED updates
               ELSE /\ Len(updates) <= cap
                    /\ updates' = createUpdate(updates, data, now)
                    /\ mail' = calls
                    /\ res' = Respond(calls, 201, update, "Failed to add update")
            /\ UNCHANGED <<orders, comments, stakeholders, client, now>>

\* POST /api/orders/:id/comments
PostComment(ids, bodies, cap) ==
    \E id \in ids, body \in bodies, ok \in BOOLEAN :
        LET data == WithOrderId(body, id)
            comment == NewNote(data, randomUUID(comments), now)
            calls == NotifyCalls(id, "comment", comment, ok)
        IN  /\ req' = [op |-> "postComment", id |-> id, body |-> body]
            /\ IF ~ValidNote(data)
               THEN /\ res' = Status(400, Message("Invalid data"))
                    /\ mail' = <<>>
                    /\ UNCHANGED comments
               ELSE /\ Len(comments) <= cap
                    /\ comments' = createComment(comments, data, now)
                    /\ mail' = calls
                    /\ res' = Respond(calls, 201, comment, "Failed to add comment")
            /\ UNCHANGED <<orders, updates, stakeholders, client, now>>

\* the invitation the single invite sends once the stakeholder is stored
InviteCalls(id, stakeholder, ok) ==
    LET order == getOrder(orders, id)
    IN  IF order.found
        THEN <<sendStakeholderInvitation(stakeholder.email, stakeholder.name,
                                         OrderInfo(order.order), stakeholder.role,
                                         stakeholder.permissions, ok)>>
        ELSE <<>>

\* GET /api/orders/:id/stakeholders
ListStakeholders(ids) ==
    \E id \in ids :
        /\ req' = [op |-> "listStakeholders", id |-> id]
        /\ res' = Status(200, getStakeholdersByOrder(stakeholders, id))
        /\ mail' = <<>>
        /\ UNCHANGED <<orders, updates, comments, stakeholders, client, now>>

\* InviteStakeholder with a compensating delete: the stakeholder is not kept
\* when its invitation fails
InviteStakeholderCompensating(ids, bodies, cap) ==
    \E id \in ids, body \in bodies, ok \in BOOLEAN :
        LET data == WithOrderId(body, id)
            stakeholder == NewStakeholder(data, randomUUID(stakeholders), now)
            calls == InviteCalls(id, stakeholder, ok)
        IN  /\ req' = [op |-> "inviteStakeholder", id |-> id, body |-> body]
            /\ IF ~ValidStakeholder(data)
               THEN /\ res' = Status(400, Message("Invalid data"))
                    /\ mail' = <<>>
                    /\ UNCHANGED stakeholders
               ELSE /\ Len(stakeholders) < cap
                    /\ stakeholders' = IF \E i \in 1..Len(calls) : calls[i].threw
                                       THEN stakeholders
                                       ELSE createStakeholder(stakeholders, data, now)
                    /\ mail' = calls
                    /\ res' = Respond(calls, 201, stakeholder, "Failed to add stakeholder")
            /\ UNCHANGED <<orders, updates, comments, client, now>>

\* POST /api/orders/:id/stakeholders
InviteStakeholder(ids, bodies, cap) ==
    \E id \in ids, body \in bodies, ok \in BOOLEAN :
        LET data == WithOrderId(body, id)
            stakeholder == NewStakeholder(data, randomUUID(stakeholders), now)
            calls == InviteCalls(id, stakeholder, ok)
        IN  /\ req' = [op |-> "inviteStakeholder", id |-> id, body |-> body]
            /\ IF ~ValidStakeholder(data)
               THEN /\ res' = Status(400, Message("Invalid data"))
                    /\ mail' = <<>>
                    /\ UNCHANGED stakeholders
               ELSE /\ Len(stakeholders) < cap
                    /\ stakeholders' = createStakeholder(stakeholders, data, now)
                    /\ mail' = calls
                    /\ res' = Respond(calls, 201, stakeholder, "Failed to add stakeholder")
            /\ UNCHANGED <<orders, updates, comments, client, now>>

\* AlreadyStakeholder with the stakeholders read once, before the loop
AlreadyStakeholderBeforeLoop(ss, id, email) ==
    LET existingStakeholders == getStakeholdersByOrder(stakeholders, id)
    IN  \E i \in 1..Len(existingStakeholders) : existingStakeholders[i].email = email

\* a string with its capitals replaced by small letters
LowerCased(str) ==
    [i \in 1..Len(str) |->
        IF \E j \in 1..Len(Upper) : Upper[j] = str[i]
        THEN Lower[CHOOSE j \in 1..Len(Upper) : Upper[j] = str[i]]
        ELSE str[i]]

\* AlreadyStakeholder that compares the addresses without regard to case
AlreadyStakeholderIgnoringCase(ss, id, email) ==
    LET existingStakeholders == getStakeholdersByOrder(ss, id)
    IN  \E i \in 1..Len(existingStakeholders) :
            LowerCased(existingStakeholders[i].email) = LowerCased(email)

\* existingStakeholders.some(s => s.email === email), on the stakeholders read
\* from the repository for this address
AlreadyStakeholder(ss, id, email) ==
    LET existingStakeholders == getStakeholdersByOrder(ss, id)
    IN  \E i \in 1..Len(existingStakeholders) : existingStakeholders[i].email = email

\* results.push(...)
Push(acc, row) == [acc EXCEPT !.results = Append(@, row)]

\* Persist without addedCount++
PersistUncounted(acc, stakeholderData, t) ==
    [acc EXCEPT !.ss = createStakeholder(acc.ss, stakeholderData, t)]

\* const stakeholder = await storage.createStakeholder(stakeholderData); addedCount++
Persist(acc, stakeholderData, t) ==
    [acc EXCEPT !.ss = createStakeholder(acc.ss, stakeholderData, t),
                !.addedCount = @ + 1]

\* Invited that sends a failed invitation a second time before it gives up
InvitedWithRetry(acc, email, stakeholder, call) ==
    IF call.threw
    THEN Push([acc EXCEPT !.mail = Append(Append(@, call), call)],
              [email |-> email, status |-> "error", error |-> "Failed to send email"])
    ELSE Push([acc EXCEPT !.mail = Append(@, call), !.successCount = @ + 1],
              [email |-> email, status |-> "success", stakeholder |-> stakeholder])

\* await emailService.sendStakeholderInvitation(...); successCount++; the row
\* pushed for the address, by the try block or by its catch
Invited(acc, email, stakeholder, call) ==
    IF call.threw
    THEN Push([acc EXCEPT !.mail = Append(@, call)],
              [email |-> email, status |-> "error", error |-> TransportError])
    ELSE Push([acc EXCEPT !.mail = Append(@, call), !.successCount = @ + 1],
              [email |-> email, status |-> "success", stakeholder |-> stakeholder])

\* one pass of the bulk invite's loop body for `email`; acc holds the repository's
\* stakeholders, the counters, the results and the calls of the email service so
\* far; ok: the transport accepts this address's invitation
BulkStep(email, acc, id, order, body, t, ok) ==
    IF ~emailRegex(email)
    THEN Push(acc, [email |-> email, status |-> "invalid", error |-> "Invalid email format"])
    ELSE IF AlreadyStakeholder(acc.ss, id, email)
    THEN Push(acc, [email |-> email, status |-> "exists", error |-> "Already a stakeholder"])
    ELSE LET stakeholderData ==
                 [orderId |-> id, name |-> DeriveName(email), email |-> email,
                  role |-> body.defaultRole, permissions |-> body.defaultPermissions]
             stakeholder == NewStakeholder(stakeholderData, randomUUID(acc.ss), t)
         IN  Invited(Persist(acc, stakeholderData, t), email, stakeholder,
                     sendStakeholderInvitation(stakeholder.email, stakeholder.name,
                                               OrderInfo(order), stakeholder.role,
                                               stakeholder.permissions, ok))

\* for (const email of emails) { ... }, from the k-th address on
RECURSIVE BulkLoop(_, _, _, _, _, _, _, _)
BulkLoop(k, emails, acc, id, order, body, t, failAt) ==
    IF k > Len(emails) THEN acc
    ELSE BulkLoop(k + 1, emails,
                  BulkStep(emails[k], acc, id, order, body, t, k \notin failAt),
                  id, order, body, t, failAt)

\* the positions of a batch of n addresses at which the transport fails: none,
\* one of them, or all
FailurePatterns(n) == {{}} \cup {{k} : k \in 1..n} \cup {1..n}

\* BulkInvite that looks the order up before it tests the list of addresses
BulkInviteLookupFirst(ids, bodies, cap) ==
    \E id \in ids, body \in bodies :
        LET emails == ParseEmails(body.emailList)
            order == getOrder(orders, id)
        IN  /\ req' = [op |-> "bulkInvite", id |-> id, body |-> body]
            /\ IF "emailList" \notin DOMAIN body
               THEN /\ res' = Status(500, Message("Failed to process bulk invitations"))
                    /\ mail' = <<>>
                    /\ UNCHANGED stakeholders
               ELSE IF ~order.found
               THEN /\ res' = Status(404, Message("Order not found"))
                    /\ mail' = <<>>
                    /\ UNCHANGED stakeholders
               ELSE IF Len(emails) = 0
               THEN /\ res' = Status(400, Message("No valid emails provided"))
                    /\ mail' = <<>>
                    /\ UNCHANGED stakeholders
               ELSE \E failAt \in (IF client THEN FailurePatterns(Len(emails)) ELSE {{}}) :
                    \E done \in {BulkLoop(1, emails,
                                           [ss |-> stakeholders, successCount |-> 0,
                                            addedCount |-> 0, results |-> <<>>,
                                            mail |-> <<>>],
                                           id, order.order, body, now, failAt)} :
                        /\ Len(done.ss) <= cap
                        /\ stakeholders' = done.ss
                        /\ mail' = done.mail
                        /\ res' = Status(201, [successCount |-> done.successCount,
                                               addedCount |-> done.addedCount,
                                               totalEmails |-> Len(emails),
                                               results |-> done.results])
            /\ UNCHANGED <<orders, updates, comments, client, now>>

\* POST /api/orders/:id/stakeholders/bulk-invite
BulkInvite(ids, bodies, cap) ==
    \E id \in ids, body \in bodies :
        LET emails == ParseEmails(body.emailList)
            order == getOrder(orders, id)
        IN  /\ req' = [op |-> "bulkInvite", id |-> id, body |-> body]
            /\ IF "emailList" \notin DOMAIN body
               THEN /\ res' = Status(500, Message("Failed to process bulk invitations"))
                    /\ mail' = <<>>
                    /\ UNCHANGED stakeholders
               ELSE IF Len(emails) = 0
               THEN /\ res' = Status(400, Message("No valid emails provided"))
                    /\ mail' = <<>>
                    /\ UNCHANGED stakeholders
               ELSE IF ~order.found
               THEN /\ res' = Status(404, Message("Order not found"))
                    /\ mail' = <<>>
                    /\ UNCHANGED stakeholders
               ELSE \E failAt \in (IF client THEN FailurePatterns(Len(emails)) ELSE {{}}) :
                    \E done \in {BulkLoop(1, emails,
                                           [ss |-> stakeholders, successCount |-> 0,
                                            addedCount |-> 0, results |-> <<>>,
                                            mail |-> <<>>],
                                           id, order.order, body, now, failAt)} :
                        /\ Len(done.ss) <= cap
                        /\ stakeholders' = done.ss
                        /\ mail' = done.mail
                        /\ res' = Status(201, [successCount |-> done.successCount,
                                               addedCount |-> done.addedCount,
                                               totalEmails |-> Len(emails),
                                               results |-> done.results])
            /\ UNCHANGED <<orders, updates, comments, client, now>>

\* DeleteResponse without the test of `deleted`
DeleteResponseAlwaysDeleted(deleted) ==
    Status(200, Message("Stakeholder deleted successfully"))

\* if (!deleted) return res.status(404)...; res.json({ message: ... })
DeleteResponse(deleted) ==
    IF ~deleted
    THEN Status(404, Message("Stakeholder not found"))
    ELSE Status(200, Message("Stakeholder deleted successfully"))

\* DELETE /api/stakeholders/:id; deleteStakeholder returns whether the Map had the id
DeleteStakeholder(ids) ==
    \E id \in MapKeys(stakeholders) \cup ids :
        /\ req' = [op |-> "deleteStakeholder", id |-> id]
        /\ stakeholders' = deleteStakeholder(stakeholders, id)
        /\ res' = DeleteResponse(MapHas(stakeholders, id))
        /\ mail' = <<>>
        /\ UNCHANGED <<orders, updates, comments, client, now>>

\* PATCH /api/stakeholders/:id/permissions
UpdatePermissions(ids, perms) ==
    \E id \in MapKeys(stakeholders) \cup ids, permissions \in perms :
        /\ req' = [op |-> "updatePermissions", id |-> id,
                   body |-> [permissions |-> permissions]]
        /\ IF ~MapHas(stakeholders, id)
           THEN /\ res' = Status(404, Message("Stakeholder not found"))
                /\ UNCHANGED stakeholders
           ELSE /\ stakeholders' = updateStakeholderPermissions(stakeholders, id, permissions)
                /\ res' = Status(200, [MapGet(stakeholders, id)
                                          EXCEPT !.permissions = permissions])
        /\ mail' = <<>>
        /\ UNCHANGED <<orders, updates, comments, client, now>>

\* the days of month m of year y
DaysIn(y, m) ==
    IF m = 2 THEN (IF (y % 4 = 0 /\ y % 100 # 0) \/ y % 400 = 0 THEN 29 ELSE 28)
    ELSE IF m \in {4, 6, 9, 11} THEN 30 ELSE 31

\* new Date(d - 86400000): the day before d
DayBefore(d) ==
    LET y == d \div 10000
        m == (d \div 100) % 100
    IN  IF d % 100 > 1 THEN d - 1
        ELSE IF m > 1 THEN y * 10000 + (m - 1) * 100 + DaysIn(y, m - 1)
        ELSE (y - 1) * 10000 + 1231

\* const notifications = [...]: the list the handler builds anew for each request
MockNotifications(t) ==
    <<[id |-> "notif-1", type |-> "email",
       title |-> "New order inquiry from Fashion Forward Inc.",
       message |-> "Hello, we're interested in placing a new order for our Spring collection. Could we schedule a call to discuss details?",
       from |-> "orders@fashionforward.com", to |-> "admin@garmentfactory.com",
       orderId |-> "ORD-001", isRead |-> FALSE, createdAt |-> t,
       emailId |-> "email-1"],
      [id |-> "notif-2", type |-> "order_update",
       title |-> "Order ORD-001 status updated",
       message |-> "Order status has been updated to 'In Production'. Estimated completion date: March 15, 2024.",
       from |-> "system@garmentfactory.com", to |-> "orders@fashionforward.com",
       orderId |-> "ORD-001", isRead |-> TRUE, createdAt |-> DayBefore(t)]>>

\* GET /api/notifications
GetNotifications ==
    /\ req' = [op |-> "getNotifications"]
    /\ res' = Status(200, MockNotifications(now))
    /\ mail' = <<>>
    /\ UNCHANGED <<orders, updates, comments, stakeholders, client, now>>

\* PATCH /api/notifications/:id/read
MarkNotificationRead(ids) ==
    \E id \in ids :
        /\ req' = [op |-> "markNotificationRead", id |-> id]
        /\ res' = Status(200, [success |-> TRUE])
        /\ mail' = <<>>
        /\ UNCHANGED <<orders, updates, comments, stakeholders, client, now>>

\* POST /api/notifications/:id/reply
ReplyNotification(bodies) ==
    \E body \in bodies, ok \in BOOLEAN :
        LET calls == <<sendNotificationReply(body.to, body.subject, body.message, ok)>>
        IN  /\ req' = [op |-> "replyNotification", id |-> "notif-1", body |-> body]
            /\ mail' = calls
            /\ res' = Respond(calls, 200, [success |-> TRUE], "Failed to send reply")
            /\ UNCHANGED <<orders, updates, comments, stakeholders, client, now>>

----------------------------------------------------------------------------
(* The environment: the requests the handlers are given *)

AddrA == <<"a", "@", "x", ".", "c">>

AddrB == <<"b", "@", "x", ".", "c">>

\* the entries an emailList is written from: two addresses, one of them also
\* with white space around it, a malformed address and an empty entry
Entries == {AddrA, AddrB, <<" ">> \o AddrA \o <<" ">>, <<"b", "a", "d">>, <<>>}

\* the separator written after the k-th entry: ',' and '\n' in turn
Separator(k) == IF k % 2 = 1 THEN <<",">> ELSE <<"\n">>

\* the raw emailList written from a sequence of entries
RECURSIVE Written(_, _)
Written(entries, k) ==
    IF k > Len(entries) THEN <<>>
    ELSE IF k = Len(entries) THEN entries[k]
    ELSE entries[k] \o Separator(k) \o Written(entries, k + 1)

EntryLists(n) == UNION {[1..m -> Entries] : m \in 1..n}

\* bulk-invite bodies: entries is the list the emailList was written from
BulkBodies(n) ==
    {[emailList |-> Written(entries, 1), entries |-> entries,
      defaultRole |-> "buyer_employee", defaultPermissions |-> "comment"] :
         entries \in EntryLists(n)}

\* a bulk-invite body without an emailList
BulkBodyWithoutList ==
    [entries |-> <<>>, defaultRole |-> "buyer_employee", defaultPermissions |-> "comment"]

\* status-update bodies: a recognized status, one that is not, and a body that
\* names no status
StatusBodies == {[status |-> "received"], [status |-> "on_hold"], [state |-> "shipped"]}

\* an id no order is ever stored under
NoOrder == "ORD-404"

NoteBodies ==
    {[message |-> "Fabric cutting is complete.", authorName |-> "Sarah Chen",
      authorRole |-> "manufacturer"],
     [message |-> "Fabric cutting is complete.", authorName |-> "Sarah Chen",
      authorRole |-> "manufacturer", orderId |-> "ORD-002"],
     [message |-> "", authorName |-> "Sarah Chen", authorRole |-> "manufacturer"]}

ValidNoteBodies ==
    {[message |-> "Fabric cutting is complete.", authorName |-> "Sarah Chen",
      authorRole |-> "manufacturer"]}

ValidStakeholderBodies ==
    {[name |-> <<"A", "n", "n">>, email |-> AddrA, role |-> "buyer",
      permissions |-> "read"],
     [name |-> <<"B", "o", "b">>, email |-> AddrB, role |-> "admin",
      permissions |-> "update"]}

StakeholderBodies ==
    {[name |-> <<"A", "n", "n">>, email |-> AddrA, role |-> "buyer",
      permissions |-> "read"],
     [name |-> <<"A", "n", "n">>, email |-> <<"b", "a", "d">>, role |-> "buyer",
      permissions |-> "read"]}

NewOrderBody ==
    [id |-> "ORD-003", buyerName |-> "Acme Apparel", styleNumber |-> "AA-001",
     quantity |-> 300, estimatedDelivery |-> [datetime |-> TRUE, date |-> 20260101],
     buyerEmail |-> AddrA]

OrderBodies ==
    {NewOrderBody,
     [NewOrderBody EXCEPT !.id = "ORD-001"],
     [NewOrderBody EXCEPT !.quantity = 0],
     [f \in DOMAIN NewOrderBody \cup {"status"} |->
          IF f = "status" THEN "shipped" ELSE NewOrderBody[f]],
     [f \in DOMAIN NewOrderBody \cup {"status"} |->
          IF f = "status" THEN "" ELSE NewOrderBody[f]]}

\* the ids of the two notifications of the list and one that is in no list
NotificationIds == {"notif-1", "notif-2", "notif-404"}

ReplyBodies == {[to |-> AddrA, subject |-> "Re: inquiry", message |-> "Thank you"]}

\* the two requests that can be in flight at once
Requests == {"r1", "r2"}

\* no handler runs for the request
Free == [pc |-> "free"]

\* the server has answered the last request and awaits the next one
Idle == req.op = "none"

\* the response is delivered
Done ==
    /\ ~Idle
    /\ req' = [op |-> "none"]
    /\ res' = [status |-> 0]
    /\ mail' = <<>>
    /\ UNCHANGED <<orders, updates, comments, stakeholders, client, now, served,
                   inflight, projects>>

\* new Date() moves on between two requests
Tick ==
    /\ Idle
    /\ now < 20250801 + MaxTick
    /\ now' = now + 1
    /\ UNCHANGED <<orders, updates, comments, stakeholders, client, req, res, mail, served,
                   inflight, projects>>

----------------------------------------------------------------------------
(* Workflow layer, one step per await: the handlers of requests in flight *)
(* together.  A handler runs from one await to the next without another   *)
(* handler in between; a call of MemStorage runs to its end when it is    *)
(* made, and the handler goes on after the await of its result.           *)

\* PATCH /api/orders/:id/status, up to the await of storage.updateOrderStatus:
\* the call has read the order and stored the new one, or has found no order
BeginUpdateOrderStatus(r, ids, bodies) ==
    /\ inflight[r] = Free
    /\ \E id \in ids, body \in bodies :
           /\ orders' = IF MapHas(orders, id)
                        THEN updateOrderStatus(orders, id, StatusOf(body))
                        ELSE orders
           /\ inflight' = [inflight EXCEPT ![r] =
                               [pc |-> "updateOrderStatus", id |-> id, body |-> body,
                                order |-> getOrder(orders', id)]]
    /\ UNCHANGED <<updates, comments, stakeholders, client, now, req, res, mail, served,
                   projects>>

\* PATCH /api/orders/:id/status, after the await: the response, from the order
\* the call returned
EndUpdateOrderStatus(r) ==
    /\ inflight[r].pc = "updateOrderStatus"
    /\ req' = [op |-> "updateOrderStatus", id |-> inflight[r].id, body |-> inflight[r].body]
    /\ res' = IF ~inflight[r].order.found
              THEN Status(404, Message("Order not found"))
              ELSE Status(200, inflight[r].order.order)
    /\ mail' = <<>>
    /\ inflight' = [inflight EXCEPT ![r] = Free]
    /\ UNCHANGED <<orders, updates, comments, stakeholders, client, now, served, projects>>

\* the handler of request r sends its response and ends
Answer(r, request, response, calls) ==
    /\ req' = request
    /\ res' = response
    /\ mail' = calls
    /\ inflight' = [inflight EXCEPT ![r] = Free]

\* POST /api/orders/:id/stakeholders/bulk-invite, up to the await of
\* storage.getOrder: the emailList is parsed, and the order is read
BeginBulkInvite(r, ids, bodies) ==
    /\ inflight[r] = Free
    /\ \E id \in ids, body \in bodies :
           LET request == [op |-> "bulkInvite", id |-> id, body |-> body]
               emails == ParseEmails(body.emailList)
           IN  IF "emailList" \notin DOMAIN body
               THEN Answer(r, request,
                           Status(500, Message("Failed to process bulk invitations")), <<>>)
               ELSE IF Len(emails) = 0
               THEN Answer(r, request, Status(400, Message("No valid emails provided")), <<>>)
               ELSE /\ inflight' = [inflight EXCEPT ![r] =
                                        [pc |-> "getOrder", id |-> id, body |-> body,
                                         emails |-> emails, order |-> getOrder(orders, id),
                                         k |-> 1, successCount |-> 0, addedCount |-> 0,
                                         results |-> <<>>, mail |-> <<>>,
                                         existingStakeholders |-> <<>>,
                                         stakeholder |-> <<>>]]
                    /\ UNCHANGED <<req, res, mail>>
    /\ UNCHANGED <<orders, updates, comments, stakeholders, client, now, projects>>

\* the loop from the address at c.k up to its next await: the addresses the
\* regular expression refuses get their row and the loop goes on
RECURSIVE SkipInvalid(_)
SkipInvalid(c) ==
    IF c.k <= Len(c.emails) /\ ~emailRegex(c.emails[c.k])
    THEN SkipInvalid(Push([c EXCEPT !.k = @ + 1],
                          [email |-> c.emails[c.k], status |-> "invalid",
                           error |-> "Invalid email format"]))
    ELSE c

\* the handler of r goes on with the loop from the address at c.k: up to the
\* await of storage.getStakeholdersByOrder for the next well-formed address, which
\* reads the order's stakeholders when it is called, or, past the last address,
\* to the response
Continue(r, c) ==
    LET d == SkipInvalid(c)
    IN  IF d.k > Len(d.emails)
        THEN Answer(r, [op |-> "bulkInvite", id |-> d.id, body |-> d.body],
                    Status(201, [successCount |-> d.successCount,
                                 addedCount |-> d.addedCount,
                                 totalEmails |-> Len(d.emails),
                                 results |-> d.results]),
                    d.mail)
        ELSE /\ inflight' = [inflight EXCEPT ![r] =
                                 [d EXCEPT !.pc = "getStakeholdersByOrder",
                                           !.existingStakeholders =
                                               getStakeholdersByOrder(stakeholders, d.id)]]
             /\ UNCHANGED <<req, res, mail>>

\* after the await of storage.getOrder: 404, or the loop is entered
AfterGetOrder(r) ==
    /\ inflight[r].pc = "getOrder"
    /\ IF ~inflight[r].order.found
       THEN Answer(r, [op |-> "bulkInvite", id |-> inflight[r].id, body |-> inflight[r].body],
                   Status(404, Message("Order not found")), <<>>)
       ELSE Continue(r, inflight[r])
    /\ UNCHANGED <<orders, updates, comments, stakeholders, client, now, served, projects>>

\* existingStakeholders.some(s => s.email === email)
SomeEmail(existingStakeholders, email) ==
    \E i \in 1..Len(existingStakeholders) : existingStakeholders[i].email = email

\* after the await of storage.getStakeholdersByOrder: the address is on the list
\* that was read and gets the row 'exists', or storage.createStakeholder is
\* called, which stores the stakeholder, and its result awaited
AfterGetStakeholders(r) ==
    LET c == inflight[r]
        email == c.emails[c.k]
        stakeholderData ==
            [orderId |-> c.id, name |-> DeriveName(email), email |-> email,
             role |-> c.body.defaultRole, permissions |-> c.body.defaultPermissions]
    IN  /\ c.pc = "getStakeholdersByOrder"
        /\ IF SomeEmail(c.existingStakeholders, email)
           THEN /\ Continue(r, Push([c EXCEPT !.k = @ + 1],
                                    [email |-> email, status |-> "exists",
                                     error |-> "Already a stakeholder"]))
                /\ UNCHANGED stakeholders
           ELSE /\ stakeholders' = createStakeholder(stakeholders, stakeholderData, now)
                /\ inflight' = [inflight EXCEPT ![r] =
                                    [c EXCEPT !.pc = "createStakeholder",
                                              !.stakeholder =
                                                  NewStakeholder(stakeholderData,
                                                                 randomUUID(stakeholders),
                                                                 now)]]
                /\ UNCHANGED <<req, res, mail>>
        /\ UNCHANGED <<orders, updates, comments, client, now, served, projects>>

\* after the await of storage.createStakeholder: addedCount++, and
\* emailService.sendStakeholderInvitation is called and awaited
AfterCreateStakeholder(r) ==
    /\ inflight[r].pc = "createStakeholder"
    /\ inflight' = [inflight EXCEPT ![r] =
                        [inflight[r] EXCEPT !.pc = "sendStakeholderInvitation",
                                            !.addedCount = @ + 1]]
    /\ UNCHANGED <<orders, updates, comments, stakeholders, client, now, req, res, mail,
                   served, projects>>

\* after the await of emailService.sendStakeholderInvitation, which has returned
\* or thrown: the row of the address, and the loop goes on
AfterInvitation(r) ==
    LET c == inflight[r]
    IN  /\ c.pc = "sendStakeholderInvitation"
        /\ \E ok \in (IF client THEN BOOLEAN ELSE {TRUE}) :
               Continue(r, [Invited(c, c.emails[c.k], c.stakeholder,
                                    sendStakeholderInvitation(
                                        c.stakeholder.email, c.stakeholder.name,
                                        OrderInfo(c.order.order), c.stakeholder.role,
                                        c.stakeholder.permissions, ok))
                               EXCEPT !.k = @ + 1])
        /\ UNCHANGED <<orders, updates, comments, stakeholders, client, now, served,
                       projects>>

----------------------------------------------------------------------------
(* Calls of the earlier MemStorage *)

\* storage.createProject(insertProject)
CreateProject(inserts, cap) ==
    \E insertProject \in inserts :
        /\ Len(projects) < cap
        /\ projects' = createProject(projects, insertProject, now)
        /\ req' = [op |-> "createProject", insertProject |-> insertProject]
        /\ res' = getProject(projects', randomUUID(projects))
        /\ UNCHANGED <<orders, updates, comments, stakeholders, client, now, mail>>

\* storage.updateProject(id, updates)
UpdateProject(ids, partials) ==
    \E id \in ids, partial \in partials :
        /\ projects' = IF MapHas(projects, id)
                       THEN updateProject(projects, id, partial, now)
                       ELSE projects
        /\ req' = [op |-> "updateProject", id |-> id, updates |-> partial]
        /\ res' = getProject(projects', id)
        /\ UNCHANGED <<orders, updates, comments, stakeholders, client, now, mail>>

\* an InsertProject
ProjectInserts ==
    {[name |-> "Winter Jackets", buyerId |-> "user-2", manufacturerId |-> "user-1"],
     [name |-> "Winter Jackets", buyerId |-> "user-2", manufacturerId |-> "user-1",
      status |-> "production", progress |-> 10]}

\* Partial<Project>: some fields of a project, its id and createdAt among them
ProjectPartials ==
    {[progress |-> 70],
     [status |-> "shipped", priority |-> "low"],
     [id |-> "project-2"],
     [createdAt |-> 20250101]}

----------------------------------------------------------------------------
(* Specifications *)

\* new MemStorage() and new EmailService(): the seeded repository; the email
\* client is configured or not
Init ==
    /\ orders = MapSet(MapSet(<<>>, order1.id, order1), order2.id, order2)
    /\ updates = MapSet(<<>>, update1.id, update1)
    /\ comments = MapSet(<<>>, comment1.id, comment1)
    /\ stakeholders = <<>>
    /\ client \in BOOLEAN
    /\ now = 20250801
    /\ req = [op |-> "none"]
    /\ res = [status |-> 0]
    /\ mail = <<>>
    /\ served = 0
    /\ inflight = [r \in Requests |-> Free]
    /\ projects = <<>>

\* one more request is taken in hand; Spec handles MaxRequests of them
Serve ==
    /\ Idle
    /\ served < MaxRequests
    /\ served' = served + 1
    /\ UNCHANGED <<inflight, projects>>

\* every handler, on a few requests each; the collections hold what
\* MaxRequests requests can store
Next ==
    \/ Serve /\ GetOrder({"ORD-001", NoOrder})
    \/ Serve /\ CreateOrder(OrderBodies)
    \/ Serve /\ UpdateOrderStatus({"ORD-001", NoOrder}, StatusBodies)
    \/ Serve /\ PostUpdate({"ORD-001", NoOrder}, NoteBodies, MaxRequests)
    \/ Serve /\ PostComment({"ORD-001", NoOrder}, NoteBodies, MaxRequests)
    \/ Serve /\ ListStakeholders({"ORD-001"})
    \/ Serve /\ InviteStakeholder({"ORD-001", NoOrder}, StakeholderBodies, MaxRequests)
    \/ Serve /\ BulkInvite({"ORD-001", NoOrder}, BulkBodies(1) \cup {BulkBodyWithoutList},
                           MaxRequests)
    \/ Serve /\ DeleteStakeholder({"uuid-8"})
    \/ Serve /\ UpdatePermissions({"uuid-8"}, {"update"})
    \/ Serve /\ ReplyNotification(ReplyBodies)
    \/ Serve /\ GetNotifications
    \/ Serve /\ MarkNotificationRead(NotificationIds)
    \/ Done
    \/ Tick

Spec == Init /\ [][Next]_vars

\* Spec where every response is delivered: no handler waits for anything but the
\* transport, and each of them ends with res.json or res.status(...).json;
\* whether another request arrives is left open
SpecServed == Spec /\ WF_vars(Done)

\* the invitation handlers, on every emailList of up to MaxBatch entries, with
\* room for as many stakeholders as a batch can add
NextInvite ==
    \/ Idle /\ BulkInvite({"ORD-001", NoOrder}, BulkBodies(MaxBatch), MaxBatch)
            /\ UNCHANGED <<served, inflight, projects>>
    \/ Idle /\ InviteStakeholder({"ORD-001"}, StakeholderBodies, MaxBatch)
            /\ UNCHANGED <<served, inflight, projects>>
    \/ Idle /\ DeleteStakeholder({"uuid-8"}) /\ UNCHANGED <<served, inflight, projects>>
    \/ Done

SpecInvite == Init /\ [][NextInvite]_vars

\* the handlers that notify the stakeholders of an order, and those that change
\* who they are
NextNotify ==
    \/ Idle /\ PostUpdate({"ORD-001", "ORD-002"}, ValidNoteBodies, MaxNotes)
            /\ UNCHANGED <<served, inflight, projects>>
    \/ Idle /\ PostComment({"ORD-001"}, ValidNoteBodies, MaxNotes) /\ UNCHANGED <<served, inflight, projects>>
    \/ Idle /\ InviteStakeholder({"ORD-001", "ORD-002"}, ValidStakeholderBodies, MaxRecipients)
            /\ UNCHANGED <<served, inflight, projects>>
    \/ Idle /\ DeleteStakeholder({"uuid-8"}) /\ UNCHANGED <<served, inflight, projects>>
    \/ Idle /\ ReplyNotification(ReplyBodies) /\ UNCHANGED <<served, inflight, projects>>
    \/ Done

SpecNotify == Init /\ [][NextNotify]_vars

\* the handlers that store, list, change and delete the stakeholders of the orders
NextManage ==
    \/ Idle /\ InviteStakeholder({"ORD-001", "ORD-002"}, ValidStakeholderBodies,
                                  MaxRecipients)
            /\ UNCHANGED <<served, inflight, projects>>
    \/ Idle /\ ListStakeholders({"ORD-001", "ORD-002"}) /\ UNCHANGED <<served, inflight, projects>>
    \/ Idle /\ DeleteStakeholder({"uuid-8"}) /\ UNCHANGED <<served, inflight, projects>>
    \/ Idle /\ UpdatePermissions({"uuid-8"}, {"read", "update"}) /\ UNCHANGED <<served, inflight, projects>>
    \/ Done

SpecManage == Init /\ [][NextManage]_vars

\* "john.q_public@co.com"
AddrJohn ==
    <<"j", "o", "h", "n", ".", "q", "_", "p", "u", "b", "l", "i", "c", "@", "c", "o", ".", "c", "o", "m">>

\* addresses whose local part has both separators, two separators in a row, a
\* separator in front, and a capital inside a word
NameAddresses ==
    {AddrJohn,
     <<"a", ".", ".", "b", "@", "x", ".", "c">>,
     <<"_", "a", "@", "x", ".", "c">>,
     <<"j", "O", "h", "n", "@", "x", ".", "c">>}

\* bulk-invite bodies of one address each
NameBodies ==
    {[emailList |-> a, entries |-> <<a>>,
      defaultRole |-> "buyer_employee", defaultPermissions |-> "comment"] :
         a \in NameAddresses}

\* the bulk invite, on addresses whose names take every step of the derivation
NextName ==
    \/ Idle /\ BulkInvite({"ORD-001"}, NameBodies, MaxNames) /\ UNCHANGED <<served, inflight, projects>>
    \/ Done

SpecName == Init /\ [][NextName]_vars

\* the values new Date() has when the notes of SpecList are posted: the host's
\* clock is not monotonic, a later post can carry an earlier date
Dates == {20240111, 20240112, 20240113}

\* the notes posted before the listings are followed: for each, the order it is
\* posted to and the date of the post
Posts == [orderId : {"ORD-001", "ORD-002"}, createdAt : Dates]

PostLists == UNION {[1..n -> Posts] : n \in 0..MaxStored}

\* the collection after the posts were stored by createUpdate, in their order
RECURSIVE StoreAll(_, _, _)
StoreAll(m, posts, k) ==
    IF k > Len(posts) THEN m
    ELSE StoreAll(createUpdate(m, [orderId |-> posts[k].orderId,
                                   message |-> "Fabric cutting is complete.",
                                   authorName |-> "Sarah Chen",
                                   authorRole |-> "manufacturer"],
                               posts[k].createdAt),
                  posts, k + 1)

\* the seeded repository after up to MaxStored updates and as many comments
InitList ==
    /\ orders = MapSet(MapSet(<<>>, order1.id, order1), order2.id, order2)
    /\ \E posts \in PostLists :
           /\ updates = StoreAll(MapSet(<<>>, update1.id, update1), posts, 1)
           /\ comments = StoreAll(MapSet(<<>>, comment1.id, comment1), posts, 1)
    /\ stakeholders = <<>>
    /\ client = FALSE
    /\ now = 20250801
    /\ req = [op |-> "none"]
    /\ res = [status |-> 0]
    /\ mail = <<>>
    /\ served = 0
    /\ inflight = [r \in Requests |-> Free]
    /\ projects = <<>>

\* the listings of an order's updates and comments
NextList ==
    \/ Idle /\ GetOrder({"ORD-001", "ORD-002", NoOrder}) /\ UNCHANGED <<served, inflight, projects>>
    \/ Done

SpecList == InitList /\ [][NextList]_vars

\* "A@x.c": AddrA but for the case of its first letter
AddrUpperA == <<"A", "@", "x", ".", "c">>

\* bulk-invite bodies of addresses that differ in case only
CaseBodies ==
    {[emailList |-> Written(entries, 1), entries |-> entries,
      defaultRole |-> "buyer_employee", defaultPermissions |-> "comment"] :
         entries \in {<<AddrA>>, <<AddrUpperA>>, <<AddrA, AddrUpperA>>}}

\* the bulk invite, on two orders and on addresses that differ in case only
NextCase ==
    \/ Idle /\ BulkInvite({"ORD-001", "ORD-002"}, CaseBodies, MaxCase)
            /\ UNCHANGED <<served, inflight, projects>>
    \/ Done

SpecCase == Init /\ [][NextCase]_vars

\* bulk-invite bodies for requests in flight together: one address, two
\* addresses, and a malformed entry in front of an address
RaceBodies ==
    {[emailList |-> Written(entries, 1), entries |-> entries,
      defaultRole |-> "buyer_employee", defaultPermissions |-> "comment"] :
         entries \in {<<AddrA>>, <<AddrA, AddrB>>, <<<<"b", "a", "d">>, AddrA>>}}

\* bulk invites of requests in flight together, MaxRequests of them in all
NextBulkRace ==
    \/ \E r \in Requests :
           /\ served < MaxRequests
           /\ served' = served + 1
           /\ BeginBulkInvite(r, {"ORD-001", NoOrder}, RaceBodies)
    \/ \E r \in Requests : AfterGetOrder(r)
    \/ \E r \in Requests : AfterGetStakeholders(r)
    \/ \E r \in Requests : AfterCreateStakeholder(r)
    \/ \E r \in Requests : AfterInvitation(r)

SpecBulkRace == Init /\ [][NextBulkRace]_vars

\* new MemStorage() of the earlier revision: the seeded projects
InitProject ==
    /\ orders = <<>>
    /\ updates = <<>>
    /\ comments = <<>>
    /\ stakeholders = <<>>
    /\ client = FALSE
    /\ now = 20250801
    /\ req = [op |-> "none"]
    /\ res = [status |-> 0]
    /\ mail = <<>>
    /\ served = 0
    /\ inflight = [r \in Requests |-> Free]
    /\ projects = MapSet(MapSet(<<>>, project1(now).id, project1(now)),
                         project2(now).id, project2(now))

\* the calls that create and update projects
NextProject ==
    \/ Idle /\ CreateProject(ProjectInserts, MaxProjects) /\ UNCHANGED <<served, inflight>>
    \/ Idle /\ UpdateProject({"project-1", "project-404"}, ProjectPartials)
            /\ UNCHANGED <<served, inflight>>
    \/ Done
    \/ Tick

SpecProject == InitProject /\ [][NextProject]_vars

\* status updates of requests in flight together, to an order and to an id no
\* order has
NextRace ==
    \/ \E r \in Requests : BeginUpdateOrderStatus(r, {"ORD-001", NoOrder}, StatusBodies)
    \/ \E r \in Requests : EndUpdateOrderStatus(r)

SpecRace == Init /\ [][NextRace]_vars

----------------------------------------------------------------------------
(* Properties of the bulk invite, checked under SpecInvite *)

\* the last request was a bulk invite that went through its loop
BulkAnswered == req.op = "bulkInvite" /\ res.status = 201

\* the addresses an emailList written from `entries` names: each entry without
\* its white space, the empty ones left out
WithoutSpace(entry) == SelectSeq(entry, LAMBDA c : ~IsSpace(c))

ExpectedAddresses(entries) ==
    SelectSeq([i \in 1..Len(entries) |-> WithoutSpace(entries[i])], LAMBDA e : Len(e) > 0)

\* the rows of the results with the given status
RowsWith(rows, status) == {k \in 1..Len(rows) : rows[k].status = status}

\* a stakeholder of the order with this email is stored in ss
StoredFor(ss, id, email) ==
    \E i \in 1..Len(ss) : ss[i].v.orderId = id /\ ss[i].v.email = email

\* C1: in a bulk invite on an existing order, an address that is the email of a
\* stakeholder already on the order, one persisted earlier in the same batch
\* included, gets the row 'exists'; the stakeholders stored before the request
\* stay as they were (name, role and permissions included), and the request
\* stores no address twice and none that was already on the order.
C1_DuplicateIsReportedNotStored ==
    [][(Idle /\ req'.op = "bulkInvite" /\ res'.status = 201) =>
          LET rows == res'.body.results
              id == req'.id
              old == Len(stakeholders)
              added == (old + 1)..Len(stakeholders')
          IN  /\ \A k \in 1..Len(rows) :
                     (\/ StoredFor(stakeholders, id, rows[k].email)
                      \/ \E j \in 1..(k - 1) :
                             /\ rows[j].email = rows[k].email
                             /\ rows[j].status \in {"success", "error"})
                     => rows[k].status = "exists"
              /\ Len(stakeholders') >= old
              /\ SubSeq(stakeholders', 1, old) = stakeholders
              /\ \A i \in added :
                     /\ stakeholders'[i].v.orderId = id
                     /\ ~StoredFor(stakeholders, id, stakeholders'[i].v.email)
                     /\ \A j \in added :
                            stakeholders'[j].v.email = stakeholders'[i].v.email => j = i
    ]_vars

\* C1 witness: a batch names the same address twice; the first is stored, the
\* second is reported 'exists', and a stakeholder invited singly, with another
\* role than the batch's, is on the order
C1_Witness ==
    /\ BulkAnswered
    /\ Len(res.body.results) = 2
    /\ res.body.results[1].email = res.body.results[2].email
    /\ res.body.results[1].status = "success"
    /\ res.body.results[2].status = "exists"
    /\ \E i \in 1..Len(stakeholders) :
           stakeholders[i].v.orderId = req.id /\ stakeholders[i].v.role = "buyer"

\* C2: a bulk invite that reaches its loop answers one row per non-empty trimmed
\* entry of the emailList, in the order of the input, each with one of the four
\* statuses; totalEmails is the number of rows; empty entries give no row.
C2_OneRowPerEntry ==
    BulkAnswered =>
        LET rows == res.body.results
            expected == ExpectedAddresses(req.body.entries)
        IN  /\ Len(rows) = Len(expected)
            /\ \A k \in 1..Len(rows) :
                   /\ rows[k].email = expected[k]
                   /\ rows[k].status \in {"invalid", "exists", "success", "error"}
            /\ res.body.totalEmails = Len(rows)

\* C2 witness: an emailList with an empty entry and an entry with white space
\* around it, answered with a single row
C2_Witness ==
    /\ BulkAnswered
    /\ req.body.entries = << <<>>, <<" ">> \o AddrA \o <<" ">> >>
    /\ Len(res.body.results) = 1
    /\ res.body.results[1].email = AddrA

\* C3: addedCount is the number of stakeholders the request stored, successCount
\* the number of 'success' rows, and successCount <= addedCount <= totalEmails.
C3_CountsMatch ==
    [][(Idle /\ req'.op = "bulkInvite" /\ res'.status = 201) =>
          /\ res'.body.addedCount = Len(stakeholders') - Len(stakeholders)
          /\ res'.body.successCount =
                 Cardinality(RowsWith(res'.body.results, "success"))
          /\ res'.body.successCount <= res'.body.addedCount
          /\ res'.body.addedCount <= res'.body.totalEmails
    ]_vars

\* C3 witness: two stakeholders stored, the invitation of one of them failed
C3_Witness ==
    /\ BulkAnswered
    /\ res.body.addedCount = 2
    /\ res.body.successCount = 1
    /\ res.body.totalEmails = 2

\* C4: when the invitation of an address fails after its stakeholder was stored,
\* the stakeholder stays stored, the row of the address is 'error' with the
\* transport's reason, addedCount counts it and successCount does not, and the
\* loop goes on to the remaining addresses.
C4_FailedInvitationKeepsStakeholder ==
    BulkAnswered =>
        LET rows == res.body.results
            failed == {i \in 1..Len(mail) : mail[i].outcome = "failed"}
        IN  /\ \A i \in failed :
                   \E k \in RowsWith(rows, "error") :
                       /\ rows[k].email = mail[i].to[1]
                       /\ rows[k].error = TransportError
                       /\ StoredFor(stakeholders, req.id, rows[k].email)
            /\ Cardinality(RowsWith(rows, "error")) = Cardinality(failed)
            /\ res.body.addedCount =
                   res.body.successCount + Cardinality(RowsWith(rows, "error"))
            /\ res.body.successCount = Cardinality(RowsWith(rows, "success"))
            /\ Len(rows) = Len(ExpectedAddresses(req.body.entries))

\* C4 witness: the first invitation of a batch fails, the second address is
\* still processed and invited
C4_Witness ==
    /\ BulkAnswered
    /\ Len(mail) = 2
    /\ mail[1].outcome = "failed"
    /\ mail[2].outcome = "sent"
    /\ res.body.results[1].status = "error"
    /\ res.body.results[2].status = "success"
    /\ StoredFor(stakeholders, req.id, res.body.results[1].email)

----------------------------------------------------------------------------
(* Properties of the notifications, checked under SpecNotify *)

\* the last request posted a valid update or comment
NotePosted ==
    /\ req.op \in {"postUpdate", "postComment"}
    /\ ValidNote(WithOrderId(req.body, req.id))

\* the collection the last request posted to
NotesOf(op) == IF op = "postUpdate" THEN updates ELSE comments

\* the response carries the stored record of the posted note
AnsweredCreated ==
    /\ res.status = 201
    /\ MapHas(NotesOf(req.op), res.body.id)
    /\ MapGet(NotesOf(req.op), res.body.id) = res.body
    /\ res.body.orderId = req.id
    /\ res.body.message = req.body.message

\* the order has a stakeholder
HasStakeholder(id) == \E i \in 1..Len(stakeholders) : stakeholders[i].v.orderId = id

\* how many times x occurs in the sequence xs
Count(xs, x) == Cardinality({i \in 1..Len(xs) : xs[i] = x})

C6_ReplySuccessMeansSent ==
    req.op = "replyNotification" =>
        /\ mail[1].outcome = "failed" => res.status = 500
        /\ res.status = 200 => mail[1].outcome = "sent"

\* C6 (amended): a failing transport makes the reply endpoint answer 500; it
\* answers success only when the reply was handed to the transport without
\* error or when the email service has no client, in which case the reply is
\* logged and never sent.
C6_ReplyFailurePropagated ==
    req.op = "replyNotification" =>
        /\ Len(mail) = 1
        /\ mail[1].to = <<req.body.to>>
        /\ mail[1].outcome = "failed" => res.status = 500
        /\ res.status = 200 =>
               \/ mail[1].outcome = "sent"
               \/ ~client /\ mail[1].outcome = "skipped"
        /\ res.status \in {200, 500}

\* C6 witness: the transport rejects a reply and the endpoint answers 500
C6_Witness ==
    /\ req.op = "replyNotification"
    /\ client
    /\ mail[1].outcome = "failed"
    /\ res.status = 500

\* C7: a valid update or comment posted to an order without stakeholders makes
\* no call of the dispatcher and is answered 201 with the created record.
C7_NoStakeholdersNoDispatch ==
    (NotePosted /\ ~HasStakeholder(req.id)) => (mail = <<>> /\ AnsweredCreated)

\* C7 witness: an update posted to ORD-001, which has no stakeholder while
\* ORD-002 has one
C7_Witness ==
    /\ NotePosted
    /\ req.id = "ORD-001"
    /\ ~HasStakeholder("ORD-001")
    /\ HasStakeholder("ORD-002")
    /\ res.status = 201

\* C8: a valid update or comment posted to an existing order with at least one
\* stakeholder makes one call of the dispatcher, for this order and this
\* message, whose recipients are the emails of the stakeholders the repository
\* holds for the order, one per stakeholder and no other.
C8_RecipientsAreTheOrdersStakeholders ==
    (NotePosted /\ MapHas(orders, req.id) /\ HasStakeholder(req.id)) =>
        /\ Len(mail) = 1
        /\ mail[1].content.order = req.id
        /\ mail[1].content.message = req.body.message
        /\ \A e \in {AddrA, AddrB} :
               Count(mail[1].to, e) =
                   Cardinality({i \in 1..Len(stakeholders) :
                                    /\ stakeholders[i].v.orderId = req.id
                                    /\ stakeholders[i].v.email = e})
        /\ \A i \in 1..Len(mail[1].to) : mail[1].to[i] \in {AddrA, AddrB}

\* C8 witness: an update posted to ORD-001 goes to its stakeholder a@x.c and
\* not to b@x.c, a stakeholder of ORD-002
C8_Witness ==
    /\ NotePosted
    /\ req.id = "ORD-001"
    /\ mail # <<>>
    /\ mail[1].to = <<AddrA>>
    /\ \E i \in 1..Len(stakeholders) :
           stakeholders[i].v.orderId = "ORD-002" /\ stakeholders[i].v.email = AddrB

----------------------------------------------------------------------------
(* Properties of the stakeholders, checked under SpecManage *)

\* C17: delete-stakeholder and update-permissions for an id without a stored
\* stakeholder answer 404 and change no collection; for a stored stakeholder
\* they answer 200, delete removes that stakeholder and no other, and
\* update-permissions changes the permissions of that stakeholder and nothing
\* else.  Neither answers 500.
C17_MissingStakeholderIsNotFound ==
    [][(Idle /\ req'.op \in {"deleteStakeholder", "updatePermissions"}) =>
          /\ UNCHANGED <<orders, updates, comments>>
          /\ ~MapHas(stakeholders, req'.id) =>
                 (res'.status = 404 /\ stakeholders' = stakeholders)
          /\ MapHas(stakeholders, req'.id) =>
                 /\ res'.status = 200
                 /\ req'.op = "deleteStakeholder" =>
                        stakeholders' = SelectSeq(stakeholders, LAMBDA e : e.k # req'.id)
                 /\ req'.op = "updatePermissions" =>
                        /\ Len(stakeholders') = Len(stakeholders)
                        /\ \A i \in 1..Len(stakeholders) :
                               /\ stakeholders'[i].k = stakeholders[i].k
                               /\ stakeholders[i].k # req'.id =>
                                      stakeholders'[i] = stakeholders[i]
                               /\ [stakeholders'[i].v EXCEPT !.permissions = ""] =
                                      [stakeholders[i].v EXCEPT !.permissions = ""]
                        /\ MapGet(stakeholders', req'.id).permissions =
                               req'.body.permissions
    ]_vars

\* C17 witness: a delete for an id no stakeholder has is answered 404 while two
\* stakeholders are stored
C17_Witness ==
    /\ req.op = "deleteStakeholder"
    /\ ~MapHas(stakeholders, req.id)
    /\ res.status = 404
    /\ Len(stakeholders) = 2

\* the stakeholders a listing of the order returns from the repository ss
Listed(ss, id) ==
    {getStakeholdersByOrder(ss, id)[i] : i \in 1..Len(getStakeholdersByOrder(ss, id))}

\* C18: when the invitation of a single invite fails, the stakeholder stored for
\* it stays stored; a stored stakeholder is kept by every request but its own
\* delete, the record unchanged by every request but update-permissions, and a
\* listing of its order returns it.
C18_FailedInviteKeepsStakeholder ==
    [][/\ (Idle /\ req'.op = "inviteStakeholder"
             /\ \E i \in 1..Len(mail') : mail'[i].outcome = "failed") =>
             \E e \in Listed(stakeholders', req'.id) :
                 /\ e.email = req'.body.email
                 /\ e.name = req'.body.name
                 /\ ~MapHas(stakeholders, e.id)
       /\ \A i \in 1..Len(stakeholders) :
             (req'.op # "deleteStakeholder" \/ req'.id # stakeholders[i].k) =>
                 \E e \in Listed(stakeholders', stakeholders[i].v.orderId) :
                     /\ e.id = stakeholders[i].k
                     /\ req'.op # "updatePermissions" => e = stakeholders[i].v
       /\ (Idle /\ req'.op = "listStakeholders") =>
             \A i \in 1..Len(stakeholders) :
                 stakeholders[i].v.orderId = req'.id =>
                     \E j \in 1..Len(res'.body) : res'.body[j] = stakeholders[i].v
    ]_vars

\* C18 witness: the transport rejects the invitation of a single invite, the
\* request is answered 500 and the stakeholder is stored for the order
C18_Witness ==
    /\ req.op = "inviteStakeholder"
    /\ mail # <<>>
    /\ mail[1].outcome = "failed"
    /\ res.status = 500
    /\ \E e \in Listed(stakeholders, req.id) : e.email = req.body.email

----------------------------------------------------------------------------
(* Properties of the orders, checked under Spec *)

\* C9 (as claimed): once an order is created, no request changes any of its
\* fields but status, a later create-order with the same id included.
C9_OrderFieldsKeptButStatus ==
    [][\A id \in MapKeys(orders) :
          /\ MapHas(orders', id)
          /\ [MapGet(orders', id) EXCEPT !.status = ""] =
                 [MapGet(orders, id) EXCEPT !.status = ""]
    ]_vars

\* C10: orders are never deleted: an id get-order finds an order for is found
\* after every later request, the seeded ORD-001 and ORD-002 included.
C10_OrdersNeverDeleted ==
    [][\A id \in MapKeys(orders) : getOrder(orders', id).found]_vars

\* C10 witness: ORD-003 was created, a later request changed the status of
\* ORD-001, and the three orders are found
C10_Witness ==
    /\ req.op = "updateOrderStatus"
    /\ res.status = 200
    /\ getOrder(orders, "ORD-001").found
    /\ getOrder(orders, "ORD-002").found
    /\ getOrder(orders, "ORD-003").found

\* the last request created an order
OrderCreated == req.op = "createOrder" /\ res.status = 201

\* C11 (as claimed): every valid create-order is answered 201 with the stored
\* order, whose status is 'received' when the payload has no status and the
\* supplied status otherwise, and whose createdAt is the time of the request.
C11_StatusDefaultsWhenOmitted ==
    (req.op = "createOrder" /\ ValidOrder(req.body)) =>
        /\ res.status = 201
        /\ getOrder(orders, req.body.id).found
        /\ getOrder(orders, req.body.id).order = res.body
        /\ res.body.status = IF "status" \in DOMAIN req.body
                              THEN req.body.status ELSE "received"
        /\ "createdAt" \in DOMAIN res.body
        /\ res.body.createdAt = now

\* C11 (amended): as above, with status 'received' also when the payload
\* supplies the empty string.
C11_StatusDefaultsWhenOmittedOrEmpty ==
    (req.op = "createOrder" /\ ValidOrder(req.body)) =>
        /\ res.status = 201
        /\ getOrder(orders, req.body.id).found
        /\ getOrder(orders, req.body.id).order = res.body
        /\ res.body.status = IF "status" \in DOMAIN req.body /\ req.body.status # ""
                              THEN req.body.status ELSE "received"
        /\ "createdAt" \in DOMAIN res.body
        /\ res.body.createdAt = now

\* C11 witness: the second request of a behaviour creates ORD-003 without a
\* status, and the order is stored and answered as 'received'
C11_Witness ==
    /\ OrderCreated
    /\ "status" \notin DOMAIN req.body
    /\ res.body.status = "received"
    /\ getOrder(orders, "ORD-003").found
    /\ served = 2

\* the last request updated the status of a stored order
StatusUpdated == req.op = "updateOrderStatus" /\ MapHas(orders, req.id)

\* C12: update-order-status on a stored order persists the given value, whatever
\* the order's status was and whether or not the value is a recognized one, and
\* get-order then returns the order with the new status.
C12_AnyStatusIsPersisted ==
    [][(Idle /\ req'.op = "updateOrderStatus" /\ MapHas(orders, req'.id)) =>
          /\ res'.status = 200
          /\ getOrder(orders', req'.id).found
          /\ getOrder(orders', req'.id).order.status = StatusOf(req'.body)
          /\ res'.body = getOrder(orders', req'.id).order
    ]_vars

\* C12 witness: ORD-001 has the unrecognized status 'on_hold' after the second
\* status update of a behaviour
C12_Witness ==
    /\ StatusUpdated
    /\ req.id = "ORD-001"
    /\ req.body = [status |-> "on_hold"]
    /\ getOrder(orders, "ORD-001").order.status = "on_hold"
    /\ served = 2

\* C13: update-order-status for an id without a stored order answers 404, stores
\* no order and changes no collection; for a stored order it changes the status
\* of that order only: its other fields, the other orders, the updates, the
\* comments and the stakeholders stay as they were.
C13_StatusUpdateChangesOnlyStatus ==
    [][(Idle /\ req'.op = "updateOrderStatus") =>
          /\ UNCHANGED <<updates, comments, stakeholders>>
          /\ ~MapHas(orders, req'.id) => (res'.status = 404 /\ orders' = orders)
          /\ MapHas(orders, req'.id) =>
                 /\ Len(orders') = Len(orders)
                 /\ \A i \in 1..Len(orders) :
                        /\ orders'[i].k = orders[i].k
                        /\ orders[i].k # req'.id => orders'[i] = orders[i]
                        /\ [orders'[i].v EXCEPT !.status = ""] =
                               [orders[i].v EXCEPT !.status = ""]
    ]_vars

\* C13 witness: a status update for ORD-404 is answered 404 while three orders
\* are stored, none of them under that id
C13_Witness ==
    /\ req.op = "updateOrderStatus"
    /\ req.id = NoOrder
    /\ res.status = 404
    /\ MapKeys(orders) = {"ORD-001", "ORD-002", "ORD-003"}

----------------------------------------------------------------------------
(* Properties of the listings, checked under SpecList *)

\* the last request read a stored order with its updates and comments
OrderRead == req.op = "getOrder" /\ res.status = 200

\* list holds exactly the records of the collection m whose orderId is id, each
\* of them once
ExactlyThoseOf(list, m, id) ==
    /\ \A i \in 1..Len(list) :
           /\ list[i].orderId = id
           /\ MapHas(m, list[i].id)
           /\ MapGet(m, list[i].id) = list[i]
    /\ \A j \in 1..Len(m) :
           m[j].v.orderId = id =>
               Cardinality({i \in 1..Len(list) : list[i] = m[j].v}) = 1

\* C14: the updates listed for an order are exactly the stored updates of that
\* order, latest first; the comments listed are exactly the stored comments
\* of that order, earliest first; in whatever order they were stored.
C14_ListingsFilteredAndSorted ==
    OrderRead =>
        LET us == res.body.updates
            cs == res.body.comments
        IN  /\ ExactlyThoseOf(us, updates, req.id)
            /\ ExactlyThoseOf(cs, comments, req.id)
            /\ \A i, j \in 1..Len(us) : i < j => us[i].createdAt >= us[j].createdAt
            /\ \A i, j \in 1..Len(cs) : i < j => cs[i].createdAt <= cs[j].createdAt

\* C14 witness: three updates and three comments of ORD-002 were stored with
\* the dates 12, 13 and 11 January, in this order, after the seeded one of
\* ORD-001; they are listed as 13, 12, 11 and as 11, 12, 13
C14_Witness ==
    /\ OrderRead
    /\ req.id = "ORD-002"
    /\ Len(updates) = 4
    /\ Len(res.body.updates) = 3
    /\ Len(res.body.comments) = 3
    /\ [i \in 1..3 |-> updates[i + 1].v.createdAt] = <<20240112, 20240113, 20240111>>
    /\ [i \in 1..3 |-> res.body.updates[i].createdAt] = <<20240113, 20240112, 20240111>>
    /\ [i \in 1..3 |-> res.body.comments[i].createdAt] = <<20240111, 20240112, 20240113>>

----------------------------------------------------------------------------
(* Properties of the whole workflow layer, checked under Spec *)

\* C15 (as claimed): every stored update, comment and stakeholder has the
\* orderId of a stored order.
C15_EveryOrderIdIsOfAnOrder ==
    /\ \A i \in 1..Len(updates) : MapHas(orders, updates[i].v.orderId)
    /\ \A i \in 1..Len(comments) : MapHas(orders, comments[i].v.orderId)
    /\ \A i \in 1..Len(stakeholders) : MapHas(orders, stakeholders[i].v.orderId)

\* the input of request r violates the shape or the constraints of its endpoint
InvalidInput(r) ==
    \/ r.op = "createOrder" /\ ~ValidOrder(r.body)
    \/ r.op \in {"postUpdate", "postComment"} /\ ~ValidNote(WithOrderId(r.body, r.id))
    \/ r.op = "inviteStakeholder" /\ ~ValidStakeholder(WithOrderId(r.body, r.id))
    \/ r.op = "bulkInvite" /\ "emailList" \notin DOMAIN r.body
    \/ r.op = "bulkInvite" /\ "emailList" \in DOMAIN r.body
                           /\ Len(ParseEmails(r.body.emailList)) = 0
    \/ r.op = "updateOrderStatus" /\ "status" \notin DOMAIN r.body

\* C16 (as claimed): a request whose input violates the shape or constraints of
\* its endpoint is answered 400, changes nothing in the repository and makes
\* no call of the dispatcher.
C16_InvalidInputAnswered400 ==
    [][(Idle /\ InvalidInput(req')) =>
          /\ res'.status = 400
          /\ mail' = <<>>
          /\ UNCHANGED <<orders, updates, comments, stakeholders>>
    ]_vars

\* C19: updates and comments are append-only: every request leaves the stored
\* updates and comments as they were, field by field and in their place; a post
\* answered 201 adds one record, under a new id, to its own collection and
\* none to the other; no other request adds any.
C19_NotesAreAppendOnly ==
    [][/\ Len(updates') >= Len(updates)
       /\ SubSeq(updates', 1, Len(updates)) = updates
       /\ Len(comments') >= Len(comments)
       /\ SubSeq(comments', 1, Len(comments)) = comments
       /\ (req'.op = "postUpdate" /\ res'.status = 201) =>
              /\ Len(updates') = Len(updates) + 1
              /\ ~MapHas(updates, updates'[Len(updates')].k)
              /\ updates'[Len(updates')].v = res'.body
              /\ comments' = comments
       /\ (req'.op = "postComment" /\ res'.status = 201) =>
              /\ Len(comments') = Len(comments) + 1
              /\ ~MapHas(comments, comments'[Len(comments')].k)
              /\ comments'[Len(comments')].v = res'.body
              /\ updates' = updates
       /\ req'.op \notin {"postUpdate", "postComment"} =>
              UNCHANGED <<updates, comments>>
    ]_vars

\* C19 witness: a comment is posted after an update was; the seeded update and
\* comment are still the first of their collections
C19_Witness ==
    /\ req.op = "postComment"
    /\ res.status = 201
    /\ Len(updates) = 2
    /\ Len(comments) = 2
    /\ updates[1].v = update1
    /\ comments[1].v = comment1

----------------------------------------------------------------------------
(* Properties of the derived display name, checked under SpecName *)

\* the local part of an address: what stands before its first '@'
LocalPart(email) ==
    SubSeq(email, 1, (CHOOSE i \in 1..Len(email) :
                          email[i] = "@" /\ \A j \in 1..(i - 1) : email[j] # "@") - 1)

\* the local part split on '.' and '_', each word with its first letter
\* upper-cased, joined by single spaces
ExpectedName(email) ==
    LET words == SplitOn(LocalPart(email), {".", "_"})
    IN  Join([i \in 1..Len(words) |->
                 IF Len(words[i]) = 0 THEN words[i]
                 ELSE <<ToUpperCase(words[i][1])>> \o SubSeq(words[i], 2, Len(words[i]))],
             <<" ">>)

\* "John Q Public"
NameJohn == <<"J", "o", "h", "n", " ", "Q", " ", "P", "u", "b", "l", "i", "c">>

\* C20: the name of a stakeholder stored by the bulk invite is the local part of
\* its address split on '.' and '_', each word with its first letter
\* upper-cased and the rest unchanged, joined by single spaces; for
\* john.q_public@co.com it is "John Q Public".
C20_DerivedDisplayName ==
    \A i \in 1..Len(stakeholders) :
        LET s == stakeholders[i].v
        IN  /\ s.name = ExpectedName(s.email)
            /\ s.email = AddrJohn => s.name = NameJohn

\* C20 witness: the bulk invite stored john.q_public@co.com as "John Q Public"
\* next to a stakeholder of another address
C20_Witness ==
    /\ BulkAnswered
    /\ req.body.emailList = AddrJohn
    /\ res.body.results[1].status = "success"
    /\ res.body.results[1].stakeholder.name = NameJohn
    /\ Len(stakeholders) = 2

----------------------------------------------------------------------------
(* Properties of the notification list, checked under SpecServed *)

\* the list of the response has the notification `id` and reports it as read
ReportedRead(id) ==
    \E i \in 1..Len(res.body) : res.body[i].id = id /\ res.body[i].isRead

\* C21 (as claimed): once PATCH /api/notifications/:id/read has answered success
\* for a notification, every later GET /api/notifications reports that
\* notification as read
C21_MarkedReadIsReportedRead ==
    \A id \in {"notif-1", "notif-2"} :
        []((req.op = "markNotificationRead" /\ req.id = id /\ res.status = 200)
              => [](req.op = "getNotifications" => ReportedRead(id)))

----------------------------------------------------------------------------
(* Properties of requests in flight together, checked under SpecRace *)

\* the step is the write of r's status update: the call of updateOrderStatus for
\* an order the repository has
StatusWritten(r) ==
    /\ inflight[r] = Free
    /\ inflight'[r].pc = "updateOrderStatus"
    /\ MapHas(orders, inflight'[r].id)

\* C22: status updates of requests in flight together resolve as last write
\* wins: each write is one step that gives the order the status of its request
\* and keeps the order's other fields and the other orders; no other step of a
\* request changes the orders, so the stored status is that of the last write
C22_LastWriteWins ==
    [][/\ \A r \in Requests :
              StatusWritten(r) =>
                  /\ orders' = MapSet(orders, inflight'[r].id,
                                      [MapGet(orders, inflight'[r].id)
                                          EXCEPT !.status = StatusOf(inflight'[r].body)])
                  /\ \A f \in DOMAIN order1 \ {"status"} :
                         MapGet(orders', inflight'[r].id)[f]
                             = MapGet(orders, inflight'[r].id)[f]
       /\ (\A r \in Requests : ~StatusWritten(r)) => orders' = orders]_vars

\* C22 witness: r1 and r2 are both in flight for ORD-001 with different
\* statuses; r1 wrote 'received' and waits for its response, r2 wrote 'on_hold'
\* after it, and the order has r2's status and its own other fields
C22_Witness ==
    /\ inflight["r1"].pc = "updateOrderStatus"
    /\ inflight["r2"].pc = "updateOrderStatus"
    /\ inflight["r1"].id = "ORD-001"
    /\ inflight["r2"].id = "ORD-001"
    /\ inflight["r1"].order.order.status = "received"
    /\ inflight["r2"].order.order.status = "on_hold"
    /\ MapGet(orders, "ORD-001") = [order1 EXCEPT !.status = "on_hold"]

----------------------------------------------------------------------------
(* Properties of the posted notes, checked under Spec *)

\* the collection of updates or of comments, by the handler that stores in it
Notes(op, us, cs) == IF op = "postUpdate" THEN us ELSE cs

\* C24: every record a post to /orders/{id}/updates or /orders/{id}/comments
\* stores carries the order id of the request path, whatever orderId the body
\* names; the record of a 201 response is stored, with the path's order id
C24_StoredNoteCarriesPathOrderId ==
    [][(Idle /\ req'.op \in {"postUpdate", "postComment"}) =>
          LET before == Notes(req'.op, updates, comments)
              after == Notes(req'.op, updates', comments')
          IN  /\ \A k \in MapKeys(after) \ MapKeys(before) :
                     MapGet(after, k).orderId = req'.id
              /\ \A k \in MapKeys(before) :
                     MapHas(after, k) /\ MapGet(after, k) = MapGet(before, k)
              /\ res'.status = 201 =>
                     /\ res'.body.orderId = req'.id
                     /\ ~MapHas(before, res'.body.id)
                     /\ MapHas(after, res'.body.id)
                     /\ MapGet(after, res'.body.id) = res'.body]_vars

\* C24 witness: an update posted to ORD-001 with orderId 'ORD-002' in its body is
\* answered 201 and stored for ORD-001; no update is stored for ORD-002
C24_Witness ==
    /\ req.op = "postUpdate"
    /\ req.id = "ORD-001"
    /\ "orderId" \in DOMAIN req.body
    /\ req.body.orderId = "ORD-002"
    /\ res.status = 201
    /\ MapHas(updates, res.body.id)
    /\ MapGet(updates, res.body.id).orderId = "ORD-001"
    /\ \A i \in 1..Len(updates) : updates[i].v.orderId # "ORD-002"

----------------------------------------------------------------------------
(* Properties of the bulk invite's early answers, checked under SpecInvite *)

\* C25: a bulk invite whose emailList names no address is answered 400, for an
\* id without an order too; one that names an address for an id without an order
\* is answered 404; neither stores a stakeholder nor calls the email service
C25_EmptyListThenMissingOrder ==
    [][(Idle /\ req'.op = "bulkInvite" /\ "emailList" \in DOMAIN req'.body) =>
          LET addresses == ExpectedAddresses(req'.body.entries)
          IN  /\ Len(addresses) = 0 =>
                     /\ res' = Status(400, Message("No valid emails provided"))
                     /\ stakeholders' = stakeholders
                     /\ mail' = <<>>
              /\ (Len(addresses) > 0 /\ ~MapHas(orders, req'.id)) =>
                     /\ res' = Status(404, Message("Order not found"))
                     /\ stakeholders' = stakeholders
                     /\ mail' = <<>>]_vars

\* C25 witness: a list of two empty entries sent to ORD-404 is answered 400
\* while the stakeholder an earlier request stored is still there
C25_Witness ==
    /\ req.op = "bulkInvite"
    /\ req.id = NoOrder
    /\ Len(req.body.entries) = 2
    /\ ExpectedAddresses(req.body.entries) = <<>>
    /\ res.status = 400
    /\ Len(stakeholders) = 1
    /\ mail = <<>>

----------------------------------------------------------------------------
(* Properties of the duplicate check, checked under SpecCase *)

\* the k-th address of the batch was on the order before the request, or was
\* stored by the request for an earlier row, letter for letter
OnOrderBefore(rows, k, ss, id) ==
    \/ StoredFor(ss, id, rows[k].email)
    \/ \E j \in 1..(k - 1) :
           rows[j].email = rows[k].email /\ rows[j].status \in {"success", "error"}

\* C26: the bulk invite reports an address as 'exists' exactly when the same
\* order has a stakeholder with the same email letter for letter; any other
\* address is stored for the order, also when it differs from a stored one in
\* case only or is the email of a stakeholder of another order
C26_DuplicateCheckIsExactAndPerOrder ==
    [][(Idle /\ req'.op = "bulkInvite" /\ res'.status = 201) =>
          LET rows == res'.body.results
          IN  \A k \in 1..Len(rows) :
                  /\ rows[k].status \in {"exists", "success", "error"}
                  /\ rows[k].status = "exists"
                         <=> OnOrderBefore(rows, k, stakeholders, req'.id)
                  /\ rows[k].status # "exists" =>
                         StoredFor(stakeholders', req'.id, rows[k].email)]_vars

\* C26 witness: ORD-001 has the stakeholders a@x.c and A@x.c, and a@x.c is a
\* stakeholder of ORD-002 as well
C26_Witness ==
    /\ BulkAnswered
    /\ StoredFor(stakeholders, "ORD-001", AddrA)
    /\ StoredFor(stakeholders, "ORD-001", AddrUpperA)
    /\ StoredFor(stakeholders, "ORD-002", AddrA)

----------------------------------------------------------------------------
(* Properties of the stakeholders of an order, checked under SpecInvite *)

\* C28 (as claimed): whatever single invites, bulk invites and deletions were
\* handled, one after the other, no order has two stakeholders with the same
\* email
C28_NoTwoStakeholdersWithOneEmail ==
    \A i, j \in 1..Len(stakeholders) :
        (/\ stakeholders[i].v.orderId = stakeholders[j].v.orderId
         /\ stakeholders[i].v.email = stakeholders[j].v.email) => i = j

----------------------------------------------------------------------------
(* Properties of the ids, checked under SpecProject *)

\* every record of the collection has the key it is stored under as its id
IdIsKey(m) == \A i \in 1..Len(m) : m[i].v.id = m[i].k

\* C29 (as claimed): in every collection of the repository each record's id is
\* the key it is stored under, whatever was created and updated, an
\* updateProject with an id or a createdAt in its partial record included
C29_IdIsKeyInEveryCollection ==
    /\ IdIsKey(orders)
    /\ IdIsKey(updates)
    /\ IdIsKey(comments)
    /\ IdIsKey(stakeholders)
    /\ IdIsKey(projects)

----------------------------------------------------------------------------
(* Properties of bulk invites in flight together, checked under SpecBulkRace *)

\* C27 (as claimed): with two bulk invites for one order in flight together and
\* taking turns at their awaits, the order never has two stakeholders with the
\* same email
C27_NoDuplicateWhenInterleaved ==
    \A i, j \in 1..Len(stakeholders) :
        (/\ stakeholders[i].v.orderId = "ORD-001"
         /\ stakeholders[j].v.orderId = "ORD-001"
         /\ stakeholders[i].v.email = stakeholders[j].v.email) => i = j

\* the handler of the request is in the loop, at the address c.k
InLoop(c) ==
    c.pc \in {"getStakeholdersByOrder", "createStakeholder", "sendStakeholderInvitation"}

\* the rows of addresses for which an invitation was sent or failed
Dispatched(rows) == RowsWith(rows, "success") \cup RowsWith(rows, "error")

\* the handler went from one address to the next in order, with one row for
\* each address it has left and one call of the email service for each of them
\* it stored
SinglePass(c) ==
    /\ c.k \in 1..Len(c.emails)
    /\ Len(c.results) = c.k - 1
    /\ \A j \in 1..Len(c.results) : c.results[j].email = c.emails[j]
    /\ Len(c.mail) = Cardinality(Dispatched(c.results))
    /\ \A j \in 1..Len(c.mail) :
           \E i \in Dispatched(c.results) : c.mail[j].to = <<c.emails[i]>>
    /\ c.addedCount = Cardinality(Dispatched(c.results))
                          + (IF c.pc = "sendStakeholderInvitation" THEN 1 ELSE 0)

\* C23: a bulk invite is one pass over its addresses, in order and without a
\* retry: while it runs, every address before the current one has its one row
\* and, when it was stored, its one call of the email service, and no later
\* address has any; a step stores at most one stakeholder, for the current
\* address, after its check; the handler never goes back to an address; the one
\* response comes after the last address, with a row for each
C23_SequentialSinglePass ==
    [][/\ \A r \in Requests :
              /\ InLoop(inflight'[r]) => SinglePass(inflight'[r])
              /\ (InLoop(inflight[r]) /\ InLoop(inflight'[r])) =>
                     /\ inflight'[r].k >= inflight[r].k
                     /\ (inflight[r].pc = "createStakeholder"
                            /\ inflight'[r] # inflight[r]) =>
                            /\ inflight'[r].pc = "sendStakeholderInvitation"
                            /\ inflight'[r].k = inflight[r].k
                     /\ (inflight[r].pc = "sendStakeholderInvitation"
                            /\ inflight'[r] # inflight[r]) =>
                            inflight'[r].k > inflight[r].k
              /\ (InLoop(inflight[r]) /\ inflight'[r] = Free) =>
                     /\ req'.op = "bulkInvite"
                     /\ res'.status = 201
                     /\ Len(res'.body.results) = Len(inflight[r].emails)
                     /\ \A j \in 1..Len(inflight[r].emails) :
                            res'.body.results[j].email = inflight[r].emails[j]
                     /\ Len(mail') = Cardinality(Dispatched(res'.body.results))
                     /\ Len(mail') = res'.body.addedCount
       /\ Len(stakeholders') \in {Len(stakeholders), Len(stakeholders) + 1}
       /\ Len(stakeholders') = Len(stakeholders) + 1 =>
              \E r \in Requests :
                  /\ inflight[r].pc = "getStakeholdersByOrder"
                  /\ inflight'[r].pc = "createStakeholder"
                  /\ inflight'[r].k = inflight[r].k
                  /\ stakeholders'[Len(stakeholders')].v.email
                         = inflight[r].emails[inflight[r].k]]_vars

\* C23 witness: the invitation of the first of two addresses has failed; the
\* handler has its row and its one call, and waits for the invitation of the
\* second address, which it has stored
C23_Witness ==
    \E r \in Requests :
        /\ inflight[r].pc = "sendStakeholderInvitation"
        /\ inflight[r].k = 2
        /\ inflight[r].results[1].status = "error"
        /\ Len(inflight[r].mail) = 1
        /\ inflight[r].mail[1].outcome = "failed"
        /\ StoredFor(stakeholders, "ORD-001", AddrA)
        /\ StoredFor(stakeholders, "ORD-001", AddrB)
====
